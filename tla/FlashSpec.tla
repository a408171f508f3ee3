------------------------------ MODULE FlashSpec ------------------------------
(***************************************************************************)
(* FlashDevice as a specification: what the MEMORY driver may take the     *)
(* flash and its driver to do.  Requests are made with the calls of        *)
(* drv_at25df.h, and each ends, some time later, in one step.              *)
(***************************************************************************)
EXTENDS FlashDevice

VARIABLES dev, flash, ram

flashVars == <<dev, flash, ram>>

FlashInit ==
    /\ dev.status = "completed" /\ dev = Quiet("completed", dev.ptr)
    /\ flash \in [Cells -> Content]

(* A call that is not refused outright leaves its parameters in the driver. *)
Request ==
    /\ dev' # dev
    /\ dev'.addr \in Cells
    /\ dev' \in {OpenAndIdentify(dev),
                 SectorErase(dev, dev'.addr).dev,
                 PageWrite(dev, dev'.ptr, dev'.addr).dev,
                 Read(dev, dev'.ptr, dev'.len, dev'.addr).dev}
    /\ UNCHANGED <<flash, ram>>

End ==
    /\ dev.active /\ ~dev'.active
    /\ \E e \in Finish(dev, flash, ram) :
         dev' = e.dev /\ flash' = e.flash /\ ram' = e.ram

FlashBehaviour == FlashInit /\ [][Request \/ End]_flashVars
=============================================================================
