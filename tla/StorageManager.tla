---------------------------- MODULE StorageManager ----------------------------
(***************************************************************************)
(* The storage actor (storage_manager.c, storage_manager_fsm.c), from      *)
(* STORAGE_Initialize to STORAGE_Deinitialize: it checks that the flash    *)
(* holds the boot sector of the FAT volume, writes it if not, and then     *)
(* walks the pages of the log to find where to go on.                      *)
(*                                                                         *)
(* Below it is the MEMORY driver as MemoryDriver.tla promises it to one    *)
(* client: a request at a time, reported once, as a whole or as failed.    *)
(* A page is one of a few contents; the actor only compares whole pages.   *)
(*                                                                         *)
(* No actor of the program sends STORAGE_STORE_DATA_IN_TAIL, the only      *)
(* event IDLE answers, so storing data is not part of this module.         *)
(***************************************************************************)
EXTENDS Integers, Sequences

CONSTANTS
    BootPages,      \* DRV_MEMORY_BOOT_SECTOR_SIZE_PAGES
    LogStart,       \* BOOT_SECTOR_SIZE, in pages
    CheckedPage,    \* PARTITION_0_ADDRESS, in pages
    PageMod,        \* currentPage is a uint8_t: 256
    Alike,          \* may a page hold the program's bytes at address 0xFF?
    HooksOnSelf     \* does FSM_TraverseAOToNextState run the hooks of a
                    \* transition from a state to itself?

ASSUME StorageAssumption ==
    /\ BootPages \in Nat \ {0} /\ LogStart \in Nat /\ BootPages <= LogStart
    /\ CheckedPage \in 0 .. BootPages - 1
    /\ PageMod \in Nat \ {0}
    /\ Alike \in BOOLEAN
    /\ HooksOnSelf \in BOOLEAN

Pages    == 0 .. LogStart + PageMod - 1
BootArea == 0 .. BootPages - 1
(* The erase sector of the boot sector, which is LogStart pages long.      *)
EraseArea == 0 .. LogStart - 1

(* "image": the page of FATBootSectorImage that belongs there; "code": the *)
(* bytes of the program at 0xFF; "zero": a cleared page.                   *)
Contents == {"image", "erased", "zero", "code", "other"}

VARIABLES
    opened,         \* DRV_MEMORY_Open gave a handle
    st,             \* the state of the actor; "none" is NULL
    queue,          \* its events
    currentPage,
    pageBuffer,
    request,        \* what the MEMORY driver is doing for the actor
    flash,
    failed          \* has a request been reported as failed?

vars == <<opened, st, queue, currentPage, pageBuffer, request, flash, failed>>

States  == {"none", "init", "read", "verify", "write", "seek", "idle", "error"}
Signals == {"check", "verified", "write", "find", "found", "success", "fail", "error"}
Requests == [op : {"read", "erasewrite"}, page : Pages]
NoRequest == [op |-> "none"]

(* STORAGE_Initialize, and the first event, which the init actor sends.    *)
Init ==
    /\ opened \in BOOLEAN
    /\ st = "init"
    /\ queue = (IF opened THEN <<>> ELSE <<"error">>) \o <<"check">>
    /\ currentPage = 0
    /\ pageBuffer = "zero"
    /\ request = NoRequest
    /\ flash \in [Pages -> IF Alike THEN Contents ELSE Contents \ {"code"}]
    /\ failed = FALSE

-----------------------------------------------------------------------------
(* Events, transitions and their hooks.                                    *)

On(s, sig) == st = s /\ queue # <<>> /\ Head(queue) = sig

(* The states whose onExit, and whose onEnter, clears the page buffer.     *)
ClearsOnExit  == {"verify", "seek"}
ClearsOnEnter == {"seek", "idle"}

(* FSM_TraverseAOToNextState *)
Traverse(s) ==
    /\ st' = s
    /\ pageBuffer' = IF (st # s \/ HooksOnSelf) /\ (st \in ClearsOnExit \/ s \in ClearsOnEnter)
                     THEN "zero" ELSE pageBuffer

(* A request the driver turns down leaves the invalid transfer handle.     *)
Accepted == opened /\ request = NoRequest

(* DRV_MEMORY_AsyncRead or AsyncEraseWrite, from a page on.                *)
Ask(op, page) == request' = IF Accepted THEN [op |-> op, page |-> page] ELSE request

(* Mutant: looks at the handle of a request that is still running. *)
ErrorIfInvalid_WhileBusy == IF request' = NoRequest THEN <<>> ELSE <<"error">>
(* _dispatchErrorOnInvalidTransfer *)
ErrorIfInvalid == IF Accepted THEN <<>> ELSE <<"error">>

(* Mutant: reads the start of the boot sector. *)
ReadMemoryBootSector_FirstPage ==
    /\ On("init", "check")
    /\ Ask("read", 0)
    /\ queue' = Tail(queue) \o ErrorIfInvalid
    /\ Traverse("read")
    /\ UNCHANGED <<opened, currentPage, flash, failed>>
(* _readMemoryBootSector *)
ReadMemoryBootSector ==
    /\ On("init", "check")
    /\ Ask("read", CheckedPage)
    /\ queue' = Tail(queue) \o ErrorIfInvalid
    /\ Traverse("read")
    /\ UNCHANGED <<opened, currentPage, flash, failed>>

(* Mutant: the answer of the comparison is not sent when it fails. *)
VerifyMemoryBootSector_Silent ==
    /\ On("read", "success")
    /\ queue' = IF pageBuffer = "image" THEN Append(Tail(queue), "verified") ELSE Tail(queue)
    /\ Traverse("verify")
    /\ UNCHANGED <<opened, currentPage, request, flash, failed>>
(* _verifyMemoryBootSector *)
VerifyMemoryBootSector ==
    /\ On("read", "success")
    /\ queue' = Append(Tail(queue), IF pageBuffer = "image" THEN "verified" ELSE "write")
    /\ Traverse("verify")
    /\ UNCHANGED <<opened, currentPage, request, flash, failed>>

(* _writeMemoryBootSector *)
WriteMemoryBootSector ==
    /\ On("verify", "write")
    /\ Ask("erasewrite", 0)
    /\ queue' = Tail(queue) \o ErrorIfInvalid
    /\ currentPage' = BootPages % PageMod
    /\ Traverse("write")
    /\ UNCHANGED <<opened, flash, failed>>

(* Mutant: goes on with the next page at once. *)
SeeksOn_AtOnce ==
    On("verify", "verified") \/ On("write", "success") \/ On("seek", "success") \/ On("seek", "find")
(* Mutant: the counter does not wrap. *)
NextPage_NoWrap == currentPage + 1
NextPage == (currentPage + 1) % PageMod

(* The events _seekLastLogsNonEmptyPage answers.                           *)
SeeksOn == On("verify", "verified") \/ On("write", "success") \/ On("seek", "success")

(* _seekLastLogsNonEmptyPage: asks for a page and compares the buffer, in  *)
(* which that page is not yet, with what the program holds at the address  *)
(* ERASED_PAGE_PATTERN = 0xFF.  An invalid handle is not noticed.          *)
SeekLastLogsNonEmptyPage ==
    /\ SeeksOn
    /\ Ask("read", currentPage + LogStart)
    /\ queue' = Append(Tail(queue), IF pageBuffer = "code" THEN "found" ELSE "find")
    /\ currentPage' = IF pageBuffer = "code" THEN currentPage ELSE NextPage
    /\ Traverse("seek")
    /\ UNCHANGED <<opened, flash, failed>>

(* _idle *)
Idle ==
    /\ On("seek", "found")
    /\ queue' = Tail(queue)
    /\ Traverse("idle")
    /\ UNCHANGED <<opened, currentPage, request, flash, failed>>

(* Every state answers ERROR with _error; those that wait for a transfer   *)
(* answer its failure too.                                                 *)
GoesToError == \/ \E s \in States \ {"none"} : On(s, "error")
               \/ \E s \in {"read", "write", "seek"} : On(s, "fail")

Error ==
    /\ GoesToError
    /\ queue' = Tail(queue)
    /\ Traverse("error")
    /\ UNCHANGED <<opened, currentPage, request, flash, failed>>

(* An event the row of the state has no handler for is dropped.            *)
Handled ==
    \/ On("init", "check") \/ On("read", "success") \/ On("verify", "write")
    \/ SeeksOn \/ On("seek", "found") \/ GoesToError

Drop ==
    /\ st # "none" /\ queue # <<>> /\ ~Handled
    /\ queue' = Tail(queue)
    /\ UNCHANGED <<opened, st, currentPage, pageBuffer, request, flash, failed>>

(* STORAGE_Tasks *)
Tasks ==
    \/ ReadMemoryBootSector \/ VerifyMemoryBootSector \/ WriteMemoryBootSector
    \/ SeekLastLogsNonEmptyPage \/ Idle \/ Error \/ Drop

(* STORAGE_Deinitialize closes the driver: a request that waits is taken   *)
(* out of the queue, one in progress goes on.                              *)
Deinitialize ==
    /\ st # "none"
    /\ st' = "none"
    /\ request' \in {request, NoRequest}
    /\ UNCHANGED <<opened, queue, currentPage, pageBuffer, flash, failed>>

-----------------------------------------------------------------------------
(* The MEMORY driver.                                                      *)

(* STORAGE_TransferEventHandler *)
Report(sig) == queue' = Append(queue, sig)

Complete ==
    /\ request # NoRequest
    /\ IF request.op = "read"
       THEN pageBuffer' = flash[request.page] /\ UNCHANGED flash
       ELSE /\ flash' = [p \in Pages |-> IF p \in BootArea THEN "image" ELSE flash[p]]
            /\ UNCHANGED pageBuffer
    /\ request' = NoRequest
    /\ Report("success")
    /\ UNCHANGED <<opened, st, currentPage, failed>>

(* A request that fails may have filled some of the buffer, or, if it was  *)
(* to write, have left anything in the erase sector it was working on.     *)
Fail ==
    /\ request # NoRequest
    /\ IF request.op = "read"
       THEN pageBuffer' \in {pageBuffer, "other"} /\ UNCHANGED flash
       ELSE /\ \E left \in [EraseArea -> {"image", "erased", "other"}] :
                   flash' = [p \in Pages |-> IF p \in EraseArea THEN left[p] ELSE flash[p]]
            /\ UNCHANGED pageBuffer
    /\ request' = NoRequest
    /\ Report("fail")
    /\ failed' = TRUE
    /\ UNCHANGED <<opened, st, currentPage>>

Driver == Complete \/ Fail

Next == Tasks \/ Deinitialize \/ Driver

(* The super loop calls STORAGE_Tasks and DRV_MEMORY_Tasks for ever, and   *)
(* the driver reports every request (MemoryDriver!EveryRequestReported).   *)
Spec == Init /\ [][Next]_vars /\ WF_vars(Tasks) /\ WF_vars(Driver)

-----------------------------------------------------------------------------
(* Properties.                                                             *)

(* The actor's variables have their types.                                 *)
TypeOK ==
    /\ opened \in BOOLEAN /\ failed \in BOOLEAN
    /\ st \in States
    /\ queue \in Seq(Signals)
    /\ currentPage \in 0 .. PageMod - 1
    /\ pageBuffer \in Contents
    /\ request \in Requests \cup {NoRequest}
    /\ flash \in [Pages -> Contents]

(* Once the actor looks for the end of the log, the checked page of the    *)
(* boot sector is the image's: it was read into a buffer nobody has        *)
(* cleared since and found equal, or it has been written.                  *)
BootSectorValid == st \in {"seek", "idle"} => flash[CheckedPage] = "image"

(* The actor gives up only when the driver could not be opened or reported *)
(* a failure; it never asks for a transfer while one of its own is still   *)
(* in the driver, whose only request object would then be taken.           *)
ErrorMeansFailure == st = "error" => failed \/ ~opened

(* The queue of eight events never fills up: the actor's own events and    *)
(* the driver's reports never pile up beyond a report each.                *)
QueueHolds == Len(queue) <= 2

(* The check of the boot sector ends, with a walk of the log or an error,  *)
(* unless the actor is closed.                                             *)
BootCheckEnds == (st = "init") ~> (st \in {"seek", "error", "none"})

(* storage_manager_fsm.c:124: an empty page ends the search, so a log with *)
(* an empty page left does not keep the actor in it for ever.              *)
SearchEnds ==
    (st = "seek" /\ \E p \in Pages \ EraseArea : flash[p] = "erased") ~> (st # "seek")
=============================================================================
