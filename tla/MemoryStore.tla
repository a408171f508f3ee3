----------------------------- MODULE MemoryStore -----------------------------
(***************************************************************************)
(* The MEMORY driver implements a store of blocks: the refinement mapping  *)
(* from MemoryDriver to BlockStore.                                        *)
(***************************************************************************)
EXTENDS MemoryDriver

(* The abstract store this driver implements: until a request is reported, *)
(* the store and the buffer of its client are as they were when it was     *)
(* accepted.                                                               *)

Store == INSTANCE BlockStore WITH
    Clients <- Slots,
    store   <- IF pending = NoRequest THEN flash ELSE pending.before,
    request <- IF pending = NoRequest THEN NoRequest
               ELSE [by |-> pending.by.slot, op |-> pending.op, start |-> pending.start,
                     n |-> pending.n, source |-> pending.source],
    buffer  <- [s \in Slots |-> IF pending # NoRequest /\ pending.by.slot = s
                                THEN pending.source ELSE ram[s]]

(* The driver carries out every accepted request as a whole, and nothing   *)
(* else changes the flash or the clients' buffers (drv_memory.c with       *)
(* clients that wait for their requests before they close).                *)
ImplementsStore == Store!Init /\ [][Store!Next]_(Store!vars)
=============================================================================
