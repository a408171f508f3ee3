------------------------------- MODULE Managers -------------------------------
(***************************************************************************)
(* The actors that start the program and follow the USB cable: the EIC     *)
(* interrupt of the VBUS pin (usb_manager.c), the app actor, which runs    *)
(* the tasks of its mode (app_manager.c), and the init actor, which opens  *)
(* and closes the storage actor for it (init_manager.c).                   *)
(*                                                                         *)
(* SYS_Initialize runs once, then main's super loop runs INIT_Tasks and    *)
(* APP_Tasks in turn; the interrupt comes between any two steps of either. *)
(*                                                                         *)
(* The app actor and the interrupt send through a declaration of           *)
(* systemActorsList that is not its type (TActiveObject[] for an array of  *)
(* pointers), so where their events go is undefined: Delivered says which  *)
(* outcomes are considered.  The RF field signals of the app actor have no *)
(* sender in the program and are left out.                                 *)
(***************************************************************************)
EXTENDS Integers, Sequences

CONSTANTS
    Delivered,      \* may such an event reach its actor? may it not?
    AppQueueMax,    \* APP_QUEUE_MAX_CAPACITY
    Clients,        \* DRV_MEMORY_CLIENTS_NUMBER_IDX0
    MaxChanges      \* bound: changes of the cable in a behaviour

ASSUME ManagersAssumption ==
    /\ Delivered \subseteq BOOLEAN /\ Delivered # {}
    /\ AppQueueMax \in Nat \ {0} /\ Clients \in Nat \ {0} /\ MaxChanges \in Nat

VARIABLES
    cable, changes,     \* the level of the VBUS pin; how often it changed
    flag, handling,     \* EIC INTFLAG; the handler is between callback and clear
    registered,         \* USB_Initialize has set the callback
    pc,                 \* where the program is
    app, appQueue,
    initQueue,
    storage, slots,     \* the storage actor; the MEMORY clients it has open
    nfc,                \* NFC_Initialize has run
    usbRan,             \* the last APP_Tasks ran USB_Tasks
    lost                \* history: an event did not reach its actor

eicVars == <<cable, changes, flag, handling, registered>>
vars == <<eicVars, pc, app, appQueue, initQueue, storage, slots, nfc, usbRan, lost>>

Boot    == <<"NVIC_Initialize", "APP_Initialize", "INIT_Initialize", "USB_Initialize">>
Loop    == {"INIT_Tasks", "APP_Tasks"}
AppSigs == {"CONNECTED", "DISCONNECTED"}
InitSigs == {"MAIN_APP", "STORAGE", "NFC", "DEINIT_STORAGE"}

(* EIC_Initialize has enabled the pin's interrupt, in both directions.     *)
Init ==
    /\ cable \in BOOLEAN /\ changes = 0
    /\ flag = FALSE /\ handling = FALSE /\ registered = FALSE
    /\ pc = Boot[1]
    /\ app = "none" /\ appQueue = <<>>
    /\ initQueue = <<>>
    /\ storage = "none" /\ slots = 0
    /\ nfc = FALSE /\ usbRan = FALSE /\ lost = FALSE

-----------------------------------------------------------------------------
(* The cable and the interrupt.                                            *)

CableChange ==
    /\ changes < MaxChanges
    /\ cable' = ~cable /\ changes' = changes + 1
    /\ flag' = TRUE
    /\ UNCHANGED <<handling, registered, pc, app, appQueue, initQueue, storage, slots,
                   nfc, usbRan, lost>>

(* The queue an event is sent to by way of the wrong declaration.          *)
Sent(queue, queue2, sig) ==
    \E d \in Delivered :
        /\ queue2 = IF d THEN Append(queue, sig) ELSE queue
        /\ lost' = (lost \/ ~d)

(* EIC_InterruptHandler up to the callback, with _onVUSBChange.  A full    *)
(* queue keeps what it has.                                                *)
Interrupt ==
    /\ flag /\ ~handling /\ pc # "NVIC_Initialize"
    /\ handling' = TRUE
    /\ IF registered /\ Len(appQueue) < AppQueueMax
       THEN Sent(appQueue, appQueue', IF cable THEN "CONNECTED" ELSE "DISCONNECTED")
       ELSE UNCHANGED <<appQueue, lost>>
    /\ UNCHANGED <<cable, changes, flag, registered, pc, app, initQueue, storage, slots,
                   nfc, usbRan>>

(* The handler clears the flag, whatever has happened since.               *)
EndOfInterrupt ==
    /\ handling
    /\ handling' = FALSE /\ flag' = FALSE
    /\ UNCHANGED <<cable, changes, registered, pc, app, appQueue, initQueue, storage,
                   slots, nfc, usbRan, lost>>

-----------------------------------------------------------------------------
(* SYS_Initialize, from NVIC_Initialize on.                                *)

(* APP_Initialize: an empty queue and the mode with everything but USB.    *)
APP_Initialize == appQueue' = <<>> /\ app' = "NFC_AND_SENSORS"

(* Mutant: only one actor is asked for. *)
INIT_Initialize_NoStorage == initQueue' = <<"MAIN_APP", "NFC">>
INIT_Initialize == initQueue' = <<"MAIN_APP", "STORAGE", "NFC">>

SYS_Initialize ==
    /\ ~handling
    /\ \E k \in 1 .. Len(Boot) :
        /\ pc = Boot[k]
        /\ pc' = IF k = Len(Boot) THEN "INIT_Tasks" ELSE Boot[k + 1]
    /\ IF pc = "APP_Initialize" THEN APP_Initialize ELSE UNCHANGED <<app, appQueue>>
    /\ IF pc = "INIT_Initialize" THEN INIT_Initialize ELSE UNCHANGED initQueue
    /\ registered' = (registered \/ pc = "USB_Initialize")
    /\ UNCHANGED <<cable, changes, flag, handling, storage, slots, nfc, usbRan, lost>>

-----------------------------------------------------------------------------
(* INIT_Tasks: one event of the init actor.                                *)

(* STORAGE_Initialize: DRV_MEMORY_Open, as long as there is a client left. *)
STORAGE_Initialize ==
    IF slots < Clients
    THEN storage' = "open" /\ slots' = slots + 1
    ELSE storage' = "no handle" /\ UNCHANGED slots

(* Mutant: closes whatever handle it once had. *)
STORAGE_Deinitialize_Always == storage' = "none" /\ slots' = slots - 1
(* STORAGE_Deinitialize: closing a handle twice changes nothing.           *)
STORAGE_Deinitialize ==
    /\ storage' = "none"
    /\ slots' = IF storage = "open" THEN slots - 1 ELSE slots

Processed(sig) == initQueue # <<>> /\ Head(initQueue) = sig

INIT_Tasks ==
    /\ ~handling /\ pc = "INIT_Tasks"
    /\ pc' = "APP_Tasks"
    /\ initQueue' = IF initQueue = <<>> THEN <<>> ELSE Tail(initQueue)
    /\ IF Processed("MAIN_APP") THEN APP_Initialize ELSE UNCHANGED <<app, appQueue>>
    /\ IF Processed("STORAGE") THEN STORAGE_Initialize
       ELSE IF Processed("DEINIT_STORAGE") THEN STORAGE_Deinitialize
       ELSE UNCHANGED <<storage, slots>>
    /\ nfc' = (nfc \/ Processed("NFC"))
    /\ UNCHANGED <<eicVars, usbRan, lost>>

-----------------------------------------------------------------------------
(* APP_Tasks: the tasks of the mode it was in, then one event.             *)

(* Mutant: what each event asks of the storage is exchanged. *)
Asks_Swapped(sig) == IF sig = "CONNECTED" THEN "STORAGE" ELSE "DEINIT_STORAGE"
Asks(sig) == IF sig = "CONNECTED" THEN "DEINIT_STORAGE" ELSE "STORAGE"

(* Mutant: an event changes the mode twice. *)
ProcessAppManagerFSM_Twice(sig) ==
    /\ Sent(Append(initQueue, Asks(sig)), initQueue', Asks(sig))
    /\ app' = IF sig = "CONNECTED" THEN "USB_ONLY" ELSE "NFC_AND_SENSORS"
(* _processAppManagerFSM *)
ProcessAppManagerFSM(sig) ==
    /\ Sent(initQueue, initQueue', Asks(sig))
    /\ app' = IF sig = "CONNECTED" THEN "USB_ONLY" ELSE "NFC_AND_SENSORS"

APP_Tasks ==
    /\ ~handling /\ pc = "APP_Tasks"
    /\ pc' = "INIT_Tasks"
    /\ usbRan' = (app = "USB_ONLY")
    /\ IF appQueue = <<>>
       THEN UNCHANGED <<app, appQueue, initQueue, lost>>
       ELSE appQueue' = Tail(appQueue) /\ ProcessAppManagerFSM(Head(appQueue))
    /\ UNCHANGED <<eicVars, storage, slots, nfc>>

Program == SYS_Initialize \/ INIT_Tasks \/ APP_Tasks

Next == CableChange \/ Interrupt \/ EndOfInterrupt \/ Program

(* The processor serves the interrupt and goes on with the program.        *)
Spec == Init /\ [][Next]_vars /\ WF_vars(Program) /\ WF_vars(Interrupt) /\ WF_vars(EndOfInterrupt)

-----------------------------------------------------------------------------
(* Properties.                                                             *)

(* The managers' variables have their types.                               *)
TypeOK ==
    /\ cable \in BOOLEAN /\ changes \in 0 .. MaxChanges
    /\ flag \in BOOLEAN /\ handling \in BOOLEAN /\ registered \in BOOLEAN
    /\ pc \in Loop \cup {Boot[k] : k \in 1 .. Len(Boot)}
    /\ app \in {"none", "NFC_AND_SENSORS", "USB_ONLY"}
    /\ appQueue \in Seq(AppSigs) /\ Len(appQueue) <= AppQueueMax
    /\ initQueue \in Seq(InitSigs)
    /\ storage \in {"none", "open", "no handle"} /\ slots \in 0 .. Clients
    /\ nfc \in BOOLEAN /\ usbRan \in BOOLEAN /\ lost \in BOOLEAN

(* However often the cable changes, no more than the three first events    *)
(* wait for the init actor, whose queue holds eight: the app actor adds at *)
(* most one for each that INIT_Tasks takes.                                *)
InitBacklog == Len(initQueue) <= 3

(* Once the init actor has nothing left to do, the storage actor is        *)
(* stopped in USB mode and started in the other, if the events arrive.     *)
ModesAgree ==
    pc \in Loop /\ initQueue = <<>> /\ ~lost => (app = "USB_ONLY" <=> storage = "none")

(* Whatever the last event made of the app actor's mode, the storage actor *)
(* ends up as that mode wants it, if no event is lost.                     *)
StorageFollowsMode ==
    []~lost => /\ <>[](app = "USB_ONLY") => <>[](storage = "none")
               /\ <>[](app # "USB_ONLY") => <>[](storage # "none")

(* app_manager.h:7: with the cable connected to stay, the program ends up  *)
(* running only the USB tasks.                                             *)
ModeFollowsCable == <>[]cable => <>[](app = "USB_ONLY")

(* init_manager.c:81: the MEMORY driver is released before USB runs.       *)
ReleasedBeforeUsb == usbRan => slots = 0
=============================================================================
