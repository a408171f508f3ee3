------------------------------ MODULE BlockStore ------------------------------
(***************************************************************************)
(* What the MEMORY driver promises its clients (drv_memory.h): a store of  *)
(* cells on which one request at a time is carried out as a whole.         *)
(*                                                                         *)
(* `store` is the content of the memory, `request` the accepted request,   *)
(* and `buffer` the clients' buffers as a client may rely on them: they    *)
(* change when a request is accepted (the client filled its buffer) and    *)
(* when it is completed, at no other time.                                 *)
(***************************************************************************)
EXTENDS BlockRequests

CONSTANT Clients
VARIABLES store, request, buffer

vars == <<store, request, buffer>>

NoRequest == [op |-> "none"]
Request == [by : Clients, op : Ops, start : Nat, n : Nat \ {0}, source : [Cells -> Content]]

Init ==
    /\ store \in [Cells -> Content]
    /\ request = NoRequest
    /\ buffer \in [Clients -> [Cells -> Content]]

Accept ==
    /\ request = NoRequest
    /\ request' \in Request
    /\ request'.start + request'.n <= NumBlocks(request'.op)
    /\ buffer' = [buffer EXCEPT ![request'.by] = request'.source]
    /\ UNCHANGED store

Complete ==
    /\ request # NoRequest
    /\ store' = FlashAfter(request, store)
    /\ buffer' = [buffer EXCEPT ![request.by] = BufferAfter(request, store)]
    /\ request' = NoRequest

Next == Accept \/ Complete

Spec == Init /\ [][Next]_vars /\ WF_vars(Complete)
=============================================================================
