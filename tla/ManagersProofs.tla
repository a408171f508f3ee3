---------------------------- MODULE ManagersProofs ----------------------------
(***************************************************************************)
(* Theorems about the managers.  The invariant looks at the events that    *)
(* wait for the init actor: the last one that is about storage says what   *)
(* the app actor's mode wants, and each turn of the loop adds no more than *)
(* it takes.                                                               *)
(***************************************************************************)
EXTENDS Managers, TLAPS

(* The events that start and stop the storage actor.                       *)
Asking == {"STORAGE", "DEINIT_STORAGE"}

(* The k-th event that waits is the last one about storage.                *)
LastAsked(k) == /\ k \in 1 .. Len(initQueue) /\ initQueue[k] \in Asking
                /\ \A j \in 1 .. Len(initQueue) : j > k => initQueue[j] \notin Asking

NoneAsked == \A k \in 1 .. Len(initQueue) : initQueue[k] \notin Asking

(* What the mode wants is asked for last, or, if nothing is, is so.        *)
Agreement ==
    /\ \A k \in 1 .. Len(initQueue) :
           LastAsked(k) => (app = "USB_ONLY" <=> initQueue[k] = "DEINIT_STORAGE")
    /\ NoneAsked => (app = "USB_ONLY" <=> storage = "none")

(* MAIN_APP, which sets the mode back, is only the first event of all.     *)
MainFirst ==
    \A k \in 1 .. Len(initQueue) :
        initQueue[k] = "MAIN_APP" => k = 1 /\ pc # "APP_Tasks" /\ app = "NFC_AND_SENSORS"

(* A turn of the loop takes one event before it adds one.                  *)
Backlog ==
    /\ pc \in {"NVIC_Initialize", "APP_Initialize", "INIT_Initialize"} => initQueue = <<>>
    /\ pc = "USB_Initialize" => initQueue = <<"MAIN_APP", "STORAGE", "NFC">>
    /\ pc = "INIT_Tasks" => Len(initQueue) <= 3
    /\ pc = "APP_Tasks" => Len(initQueue) <= 2

Booting ==
    /\ pc \notin Loop => storage = "none"
    /\ pc \in {"INIT_Initialize", "USB_Initialize"} => app = "NFC_AND_SENSORS"

Slots == storage = "open" => slots > 0

(* The inductive invariant.                                                *)
Inv == /\ TypeOK /\ Backlog /\ Booting /\ Slots /\ MainFirst
       /\ pc \in Loop /\ ~lost => Agreement

USE DEF Loop, AppSigs, InitSigs, Asking

-----------------------------------------------------------------------------
(* What an event taken from, or added to, the queue leaves of it.          *)

LEMMA TailOfQueue ==
    ASSUME NEW q \in Seq(InitSigs), q # <<>>
    PROVE  /\ Tail(q) \in Seq(InitSigs) /\ Len(Tail(q)) = Len(q) - 1 /\ Len(q) \in Nat \ {0}
           /\ Head(q) = q[1] /\ q[1] \in InitSigs
           /\ \A k \in 1 .. Len(Tail(q)) : Tail(q)[k] = q[k + 1]
  BY SMT

LEMMA Places ==
    {Boot[k] : k \in 1 .. Len(Boot)} =
        {"NVIC_Initialize", "APP_Initialize", "INIT_Initialize", "USB_Initialize"}
  BY DEF Boot

(* The types, part by part.                                                *)
LEMMA Types ==
    ASSUME TypeOK
    PROVE  /\ cable \in BOOLEAN /\ lost \in BOOLEAN
           /\ changes \in 0 .. MaxChanges
           /\ pc \in Loop \cup {"NVIC_Initialize", "APP_Initialize", "INIT_Initialize",
                                 "USB_Initialize"}
           /\ appQueue \in Seq(AppSigs) /\ Len(appQueue) <= AppQueueMax
           /\ Len(appQueue) \in Nat
           /\ initQueue \in Seq(InitSigs) /\ Len(initQueue) \in Nat
           /\ storage \in {"none", "open", "no handle"} /\ slots \in 0 .. Clients
  <1>1. /\ cable \in BOOLEAN /\ lost \in BOOLEAN
        /\ changes \in 0 .. MaxChanges
        /\ pc \in Loop \cup {Boot[k] : k \in 1 .. Len(Boot)}
        /\ appQueue \in Seq(AppSigs) /\ Len(appQueue) <= AppQueueMax
        /\ initQueue \in Seq(InitSigs)
        /\ storage \in {"none", "open", "no handle"} /\ slots \in 0 .. Clients
    BY Zenon DEF TypeOK
  <1>2. Len(appQueue) \in Nat /\ Len(initQueue) \in Nat
    <2>1. appQueue \in Seq(AppSigs) /\ initQueue \in Seq(InitSigs) BY <1>1, Zenon
    <2> QED BY <2>1
  <1> QED BY <1>1, <1>2, Places, Zenon

LEMMA AppendToQueue ==
    ASSUME NEW q \in Seq(InitSigs), NEW e \in InitSigs
    PROVE  /\ Append(q, e) \in Seq(InitSigs) /\ Len(Append(q, e)) = Len(q) + 1
           /\ Len(q) \in Nat
           /\ Append(q, e)[Len(q) + 1] = e
           /\ \A k \in 1 .. Len(q) : Append(q, e)[k] = q[k]
  BY SMT

-----------------------------------------------------------------------------
(* The cable and the interrupt touch neither the init queue nor storage.   *)

LEMMA SlotArithmetic ==
    ASSUME NEW n \in 0 .. Clients
    PROVE  /\ n < Clients => n + 1 \in 0 .. Clients /\ n + 1 > 0
           /\ n > 0 => n - 1 \in 0 .. Clients
  BY ManagersAssumption

LEMMA InitInv == Init => Inv
  <1> SUFFICES ASSUME Init PROVE Inv OBVIOUS
  <1>1. pc = "NVIC_Initialize" /\ pc \in {Boot[k] : k \in 1 .. Len(Boot)}
    <2>1. pc = "NVIC_Initialize" BY DEF Init, Boot
    <2> QED BY <2>1, Places
  <1>2. /\ changes \in 0 .. MaxChanges /\ slots \in 0 .. Clients
        /\ appQueue \in Seq(AppSigs) /\ Len(appQueue) <= AppQueueMax
        /\ initQueue \in Seq(InitSigs)
    BY ManagersAssumption DEF Init
  <1>3. TypeOK BY <1>1, <1>2, Zenon DEF Init, TypeOK
  <1>4. MainFirst BY DEF Init, MainFirst
  <1> QED BY <1>1, <1>3, <1>4 DEF Init, Inv, Backlog, Booting, Slots

(* A step that leaves the managers alone keeps all but the types.          *)
LEMMA ManagersAlone ==
    ASSUME Inv, TypeOK', UNCHANGED <<pc, app, initQueue, storage, slots>>, lost => lost'
    PROVE  Inv'
  BY DEF Inv, TypeOK, Backlog, Booting, Slots, MainFirst, Agreement, LastAsked, NoneAsked

LEMMA CableChangeInv == Inv /\ CableChange => Inv'
  <1> SUFFICES ASSUME Inv, CableChange PROVE Inv' OBVIOUS
  <1>1. changes' \in 0 .. MaxChanges /\ cable' \in BOOLEAN
    <2>1. /\ changes \in 0 .. MaxChanges /\ changes < MaxChanges /\ changes' = changes + 1
      BY Types DEF Inv, CableChange
    <2>2. changes' \in 0 .. MaxChanges BY <2>1, ManagersAssumption
    <2>3. cable' \in BOOLEAN BY Types, Zenon DEF Inv, CableChange
    <2> QED BY <2>2, <2>3
  <1>2. TypeOK' BY <1>1, Zenon DEF Inv, TypeOK, CableChange
  <1> QED BY <1>2, ManagersAlone DEF CableChange

LEMMA InterruptInv == Inv /\ Interrupt => Inv'
  <1> SUFFICES ASSUME Inv, Interrupt PROVE Inv' OBVIOUS
  <1>1. /\ appQueue' \in Seq(AppSigs) /\ Len(appQueue') <= AppQueueMax
        /\ lost' \in BOOLEAN /\ (lost => lost')
    <2>1. CASE registered /\ Len(appQueue) < AppQueueMax
      <3> DEFINE sig == IF cable THEN "CONNECTED" ELSE "DISCONNECTED"
      <3>1. PICK d \in Delivered : /\ appQueue' = IF d THEN Append(appQueue, sig) ELSE appQueue
                                   /\ lost' = (lost \/ ~d)
        BY <2>1 DEF Interrupt, Sent
      <3>2. d \in BOOLEAN /\ lost \in BOOLEAN /\ sig \in AppSigs /\ appQueue \in Seq(AppSigs)
        BY ManagersAssumption, Types DEF Inv
      <3>3. Append(appQueue, sig) \in Seq(AppSigs) /\ Len(Append(appQueue, sig)) = Len(appQueue) + 1
        BY <3>2
      <3>4. Len(appQueue) \in Nat /\ Len(appQueue) <= AppQueueMax
        BY Types DEF Inv
      <3>5. appQueue' \in Seq(AppSigs) /\ Len(appQueue') <= AppQueueMax
        BY <2>1, <3>1, <3>2, <3>3, <3>4, ManagersAssumption
      <3>6. lost' \in BOOLEAN /\ (lost => lost') BY <3>1, <3>2
      <3> QED BY <3>5, <3>6
    <2>2. CASE ~(registered /\ Len(appQueue) < AppQueueMax)
      BY <2>2 DEF Interrupt, Inv, TypeOK
    <2> QED BY <2>1, <2>2
  <1>2. TypeOK' BY <1>1 DEF Inv, TypeOK, Interrupt
  <1> QED BY <1>1, <1>2, ManagersAlone DEF Interrupt

LEMMA EndOfInterruptInv == Inv /\ EndOfInterrupt => Inv'
  <1> SUFFICES ASSUME Inv, EndOfInterrupt PROVE Inv' OBVIOUS
  <1>1. TypeOK' BY DEF Inv, TypeOK, EndOfInterrupt
  <1> QED BY <1>1, ManagersAlone DEF EndOfInterrupt

-----------------------------------------------------------------------------
(* Start-up: it ends with the mode and the first events in agreement.      *)

LEMMA SYS_InitializeInv == Inv /\ SYS_Initialize => Inv'
  <1> SUFFICES ASSUME Inv, SYS_Initialize PROVE Inv' OBVIOUS
  <1>0. PICK k \in 1 .. 4 : /\ pc = Boot[k]
                            /\ pc' = IF k = 4 THEN "INIT_Tasks" ELSE Boot[k + 1]
    BY DEF SYS_Initialize, Boot
  <1>1. CASE pc = "NVIC_Initialize"
    <2>1. pc' = "APP_Initialize" BY <1>0, <1>1 DEF Boot
    <2>2. UNCHANGED <<cable, changes, flag, handling, app, appQueue, initQueue, storage,
                      slots, nfc, usbRan, lost>> /\ registered' = registered
      BY <1>1 DEF SYS_Initialize, Inv, TypeOK
    <2>3. TypeOK' BY <2>1, <2>2, Places, Zenon DEF Inv, TypeOK
    <2>4. initQueue = <<>> /\ storage = "none" BY <1>1 DEF Inv, Backlog, Booting
    <2> QED BY <2>1, <2>2, <2>3, <2>4 DEF Backlog, Booting, Slots, MainFirst, Inv
  <1>2. CASE pc = "APP_Initialize"
    <2>1. pc' = "INIT_Initialize" BY <1>0, <1>2 DEF Boot
    <2>2. /\ UNCHANGED <<cable, changes, flag, handling, initQueue, storage, slots, nfc, usbRan, lost>>
          /\ registered' = registered /\ appQueue' = <<>> /\ app' = "NFC_AND_SENSORS"
      BY <1>2 DEF SYS_Initialize, APP_Initialize, Inv, TypeOK
    <2>3. Len(<<>>) = 0 /\ <<>> \in Seq(AppSigs) OBVIOUS
    <2>4. Len(appQueue') <= AppQueueMax BY <2>2, <2>3, ManagersAssumption
    <2>5. TypeOK' BY <2>1, <2>2, <2>3, <2>4, Places, Zenon DEF Inv, TypeOK
    <2>6. initQueue = <<>> /\ storage = "none" BY <1>2 DEF Inv, Backlog, Booting
    <2> QED BY <2>1, <2>2, <2>5, <2>6 DEF Backlog, Booting, Slots, MainFirst, Inv
  <1>3. CASE pc = "INIT_Initialize"
    <2>1. pc' = "USB_Initialize" BY <1>0, <1>3 DEF Boot
    <2>2. /\ UNCHANGED <<cable, changes, flag, handling, app, appQueue, storage, slots, nfc, usbRan, lost>>
          /\ registered' = registered /\ initQueue' = <<"MAIN_APP", "STORAGE", "NFC">>
      BY <1>3 DEF SYS_Initialize, INIT_Initialize, Inv, TypeOK
    <2>3. initQueue' \in Seq(InitSigs) BY <2>2
    <2>4. TypeOK' BY <2>1, <2>2, <2>3, Places, Zenon DEF Inv, TypeOK
    <2>5. storage = "none" /\ app = "NFC_AND_SENSORS" BY <1>3 DEF Inv, Booting
    <2> QED BY <2>1, <2>2, <2>4, <2>5 DEF Backlog, Booting, Slots, MainFirst, Inv
  <1>4. CASE pc = "USB_Initialize"
    <2>1. pc' = "INIT_Tasks" BY <1>0, <1>4 DEF Boot
    <2>2. /\ UNCHANGED <<cable, changes, flag, handling, app, appQueue, initQueue, storage,
                         slots, nfc, usbRan, lost>>
          /\ registered' = TRUE
      BY <1>4 DEF SYS_Initialize
    <2>3. initQueue = <<"MAIN_APP", "STORAGE", "NFC">> /\ app = "NFC_AND_SENSORS" /\ storage = "none"
      BY <1>4 DEF Inv, Backlog, Booting
    <2>4. Agreement' BY <2>2, <2>3 DEF Agreement, LastAsked, NoneAsked
    <2>5. TypeOK' BY <2>1, <2>2 DEF Inv, TypeOK
    <2> QED BY <2>1, <2>2, <2>3, <2>4, <2>5 DEF Inv, Backlog, Booting, Slots, MainFirst
  <1> QED BY <1>0, <1>1, <1>2, <1>3, <1>4 DEF Boot

-----------------------------------------------------------------------------
(* INIT_Tasks takes the oldest event.                                      *)

LEMMA INIT_TasksInv == Inv /\ INIT_Tasks => Inv'
  <1> SUFFICES ASSUME Inv, INIT_Tasks PROVE Inv' OBVIOUS
  <1>0. /\ pc = "INIT_Tasks" /\ pc' = "APP_Tasks" /\ UNCHANGED <<eicVars, usbRan, lost>>
        /\ TypeOK /\ MainFirst /\ Slots /\ Len(initQueue) <= 3 /\ (~lost => Agreement)
        /\ initQueue \in Seq(InitSigs)
    BY DEF INIT_Tasks, Inv, TypeOK, Backlog
  <1>1. CASE initQueue = <<>>
    <2>1. UNCHANGED <<app, appQueue, initQueue, storage, slots>> /\ nfc' = nfc
      BY <1>1 DEF INIT_Tasks, Processed, Inv, TypeOK
    <2>2. TypeOK' BY <1>0, <2>1 DEF TypeOK, eicVars
    <2>3. Agreement => Agreement' BY <2>1 DEF Agreement, LastAsked, NoneAsked
    <2> QED BY <1>0, <1>1, <2>1, <2>2, <2>3 DEF Inv, Backlog, Booting, Slots, MainFirst
  <1>2. CASE initQueue # <<>>
    <2> DEFINE e == initQueue[1]
    <2>1. /\ initQueue' = Tail(initQueue) /\ e \in InitSigs
          /\ Len(initQueue) \in Nat \ {0} /\ Len(initQueue') = Len(initQueue) - 1
          /\ initQueue' \in Seq(InitSigs)
          /\ \A k \in 1 .. Len(initQueue') : initQueue'[k] = initQueue[k + 1]
          /\ \A s : Processed(s) <=> e = s
      BY <1>0, <1>2, TailOfQueue DEF INIT_Tasks, Processed
    <2>2. app' = app
      BY <1>0, <2>1 DEF INIT_Tasks, APP_Initialize, MainFirst
    <2>3. appQueue' \in Seq(AppSigs) /\ Len(appQueue') <= AppQueueMax
      <3>1. CASE appQueue' = <<>>
        <4>1. Len(<<>>) = 0 /\ <<>> \in Seq(AppSigs) OBVIOUS
        <4> QED BY <3>1, <4>1, ManagersAssumption
      <3>2. CASE appQueue' = appQueue BY <1>0, <3>2, Types
      <3> QED BY <3>1, <3>2 DEF INIT_Tasks, APP_Initialize
    <2>4. /\ e = "STORAGE" => storage' # "none"
          /\ e = "DEINIT_STORAGE" => storage' = "none"
          /\ e \notin Asking => UNCHANGED <<storage, slots>>
          /\ storage' \in {"none", "open", "no handle"} /\ slots' \in 0 .. Clients /\ Slots'
      <3>1. /\ slots \in 0 .. Clients /\ storage \in {"none", "open", "no handle"}
            /\ storage = "open" => slots > 0
        BY <1>0, Types DEF Slots
      <3>2. IF e = "STORAGE" THEN STORAGE_Initialize
            ELSE IF e = "DEINIT_STORAGE" THEN STORAGE_Deinitialize
            ELSE UNCHANGED <<storage, slots>>
        BY <2>1 DEF INIT_Tasks
      <3>3. CASE e = "STORAGE"
        <4>1. STORAGE_Initialize BY <3>2, <3>3
        <4>2. CASE slots < Clients
          <5>1. storage' = "open" /\ slots' = slots + 1 BY <4>1, <4>2 DEF STORAGE_Initialize
          <5>2. slots' \in 0 .. Clients /\ slots' > 0 BY <3>1, <4>2, <5>1, SlotArithmetic, Zenon
          <5> QED BY <3>3, <5>1, <5>2 DEF Slots
        <4>3. CASE ~(slots < Clients)
          <5>1. storage' = "no handle" /\ slots' = slots BY <4>1, <4>3 DEF STORAGE_Initialize
          <5> QED BY <3>1, <3>3, <5>1 DEF Slots
        <4> QED BY <4>2, <4>3
      <3>4. CASE e = "DEINIT_STORAGE"
        <4>1. STORAGE_Deinitialize BY <3>2, <3>4
        <4>2. /\ storage' = "none"
              /\ slots' = IF storage = "open" THEN slots - 1 ELSE slots
          BY <4>1 DEF STORAGE_Deinitialize
        <4>3. slots' \in 0 .. Clients BY <3>1, <4>2, SlotArithmetic, Zenon
        <4> QED BY <3>4, <4>2, <4>3 DEF Slots
      <3>5. CASE e \notin Asking
        <4>1. UNCHANGED <<storage, slots>> BY <3>2, <3>5
        <4> QED BY <3>1, <3>5, <4>1 DEF Slots
      <3> QED BY <3>3, <3>4, <3>5
    <2>5. nfc' \in BOOLEAN BY <1>0 DEF INIT_Tasks, TypeOK
    <2>6. TypeOK' BY <1>0, <2>1, <2>2, <2>3, <2>4, <2>5 DEF TypeOK, eicVars
    <2>7. MainFirst'
      <3> SUFFICES ASSUME NEW k \in 1 .. Len(initQueue'), initQueue'[k] = "MAIN_APP"
                   PROVE  FALSE
        BY DEF MainFirst
      <3> QED BY <1>0, <2>1 DEF MainFirst
    <2>8. ASSUME ~lost PROVE Agreement'
      <3>1. ASSUME NEW k \in 1 .. Len(initQueue'), LastAsked(k)'
            PROVE  app' = "USB_ONLY" <=> initQueue'[k] = "DEINIT_STORAGE"
        <4>1. k + 1 \in 1 .. Len(initQueue) /\ initQueue'[k] = initQueue[k + 1] BY <2>1
        <4>2. ASSUME NEW j \in 1 .. Len(initQueue), j > k + 1 PROVE initQueue[j] \notin Asking
          <5>1. j - 1 \in 1 .. Len(initQueue') /\ j - 1 > k /\ (j - 1) + 1 = j BY <2>1, <4>2
          <5>2. initQueue'[j - 1] = initQueue[j] BY <2>1, <5>1
          <5> QED BY <3>1, <5>1, <5>2 DEF LastAsked
        <4>3. LastAsked(k + 1) BY <3>1, <4>1, <4>2 DEF LastAsked
        <4> QED BY <1>0, <2>2, <2>8, <4>1, <4>3 DEF Agreement
      <3>2. ASSUME NoneAsked' PROVE app' = "USB_ONLY" <=> storage' = "none"
        <4>1. ASSUME NEW j \in 1 .. Len(initQueue), j > 1 PROVE initQueue[j] \notin Asking
          <5>1. j - 1 \in 1 .. Len(initQueue') /\ (j - 1) + 1 = j BY <2>1, <4>1
          <5>2. initQueue'[j - 1] = initQueue[j] BY <2>1, <5>1
          <5> QED BY <3>2, <5>1, <5>2 DEF NoneAsked
        <4>2. CASE e \in Asking
          <5>1. LastAsked(1) BY <2>1, <4>1, <4>2 DEF LastAsked
          <5>2. app = "USB_ONLY" <=> e = "DEINIT_STORAGE"
            BY <1>0, <2>1, <2>8, <5>1 DEF Agreement
          <5> QED BY <2>2, <2>4, <4>2, <5>2
        <4>3. CASE e \notin Asking
          <5>1. NoneAsked
            <6> SUFFICES ASSUME NEW j \in 1 .. Len(initQueue) PROVE initQueue[j] \notin Asking
              BY DEF NoneAsked
            <6>1. j = 1 \/ j > 1 OBVIOUS
            <6> QED BY <4>1, <4>3, <6>1
          <5> QED BY <1>0, <2>2, <2>4, <2>8, <4>3, <5>1 DEF Agreement
        <4> QED BY <4>2, <4>3
      <3> QED BY <3>1, <3>2 DEF Agreement
    <2>9. Backlog' /\ Booting'
      BY <1>0, <2>1 DEF Backlog, Booting
    <2> QED BY <1>0, <2>4, <2>6, <2>7, <2>8, <2>9 DEF Inv
  <1> QED BY <1>1, <1>2

-----------------------------------------------------------------------------
(* APP_Tasks adds at most one event, after INIT_Tasks took one.            *)

LEMMA APP_TasksInv == Inv /\ APP_Tasks => Inv'
  <1> SUFFICES ASSUME Inv, APP_Tasks PROVE Inv' OBVIOUS
  <1>0. /\ pc = "APP_Tasks" /\ pc' = "INIT_Tasks" /\ UNCHANGED <<eicVars, storage, slots, nfc>>
        /\ TypeOK /\ MainFirst /\ Slots /\ Len(initQueue) <= 2 /\ (~lost => Agreement)
        /\ initQueue \in Seq(InitSigs) /\ Len(initQueue) \in Nat /\ usbRan' \in BOOLEAN
    BY Types DEF APP_Tasks, Inv, Backlog
  <1>1. CASE appQueue = <<>>
    <2>1. UNCHANGED <<app, appQueue, initQueue, lost>> BY <1>1 DEF APP_Tasks
    <2>2. TypeOK' BY <1>0, <2>1 DEF TypeOK, eicVars
    <2>3. Agreement => Agreement' BY <1>0, <2>1 DEF Agreement, LastAsked, NoneAsked
    <2> QED BY <1>0, <2>1, <2>2, <2>3 DEF Inv, Backlog, Booting, Slots, MainFirst
  <1>2. CASE appQueue # <<>>
    <2> DEFINE sig == Head(appQueue)
    <2>1. /\ appQueue' = Tail(appQueue) /\ sig \in AppSigs
          /\ appQueue' \in Seq(AppSigs) /\ Len(appQueue') <= AppQueueMax
      <3>1. /\ appQueue \in Seq(AppSigs) /\ Len(appQueue) <= AppQueueMax
            /\ appQueue' = Tail(appQueue)
        BY <1>0, <1>2 DEF APP_Tasks, TypeOK
      <3>2. /\ sig \in AppSigs /\ Tail(appQueue) \in Seq(AppSigs)
            /\ Len(Tail(appQueue)) = Len(appQueue) - 1 /\ Len(appQueue) \in Nat
        BY <1>2, <3>1
      <3> QED BY <3>1, <3>2, ManagersAssumption
    <2>2. PICK d \in Delivered :
              /\ initQueue' = IF d THEN Append(initQueue, Asks(sig)) ELSE initQueue
              /\ lost' = (lost \/ ~d)
              /\ app' = IF sig = "CONNECTED" THEN "USB_ONLY" ELSE "NFC_AND_SENSORS"
      BY <1>2 DEF APP_Tasks, ProcessAppManagerFSM, Sent
    <2>3. d \in BOOLEAN /\ lost \in BOOLEAN BY <1>0, ManagersAssumption DEF TypeOK
    <2>4. /\ Asks(sig) \in Asking /\ Asks(sig) \in InitSigs /\ Asks(sig) # "MAIN_APP"
          /\ app' = "USB_ONLY" <=> Asks(sig) = "DEINIT_STORAGE"
          /\ app' \in {"none", "NFC_AND_SENSORS", "USB_ONLY"}
      BY <2>1, <2>2 DEF Asks
    <2>5. CASE d
      <3>1. /\ initQueue' = Append(initQueue, Asks(sig)) /\ lost' = lost
            /\ initQueue' \in Seq(InitSigs) /\ Len(initQueue') = Len(initQueue) + 1
            /\ initQueue'[Len(initQueue) + 1] = Asks(sig)
            /\ \A k \in 1 .. Len(initQueue) : initQueue'[k] = initQueue[k]
        BY <1>0, <2>2, <2>3, <2>4, <2>5, AppendToQueue
      <3>2. TypeOK' BY <1>0, <2>1, <2>3, <2>4, <3>1 DEF TypeOK, eicVars
      <3>3. MainFirst'
        <4> SUFFICES ASSUME NEW k \in 1 .. Len(initQueue'), initQueue'[k] = "MAIN_APP"
                     PROVE  FALSE
          BY DEF MainFirst
        <4>1. k \in 1 .. Len(initQueue) \/ k = Len(initQueue) + 1 BY <1>0, <3>1
        <4> QED BY <1>0, <2>4, <3>1, <4>1 DEF MainFirst
      <3>4. Agreement'
        <4>1. ASSUME NEW k \in 1 .. Len(initQueue'), LastAsked(k)'
              PROVE  k = Len(initQueue) + 1
          <5>1. Len(initQueue) + 1 \in 1 .. Len(initQueue') BY <1>0, <3>1
          <5>2. ~(Len(initQueue) + 1 > k) BY <2>4, <3>1, <4>1, <5>1 DEF LastAsked
          <5> QED BY <1>0, <3>1, <5>2
        <4>2. ~NoneAsked'
          <5>1. Len(initQueue) + 1 \in 1 .. Len(initQueue') BY <1>0, <3>1
          <5> QED BY <2>4, <3>1, <5>1 DEF NoneAsked
        <4> QED BY <2>4, <3>1, <4>1, <4>2 DEF Agreement
      <3> QED BY <1>0, <3>1, <3>2, <3>3, <3>4 DEF Inv, Backlog, Booting, Slots
    <2>6. CASE ~d
      <3>1. initQueue' = initQueue /\ lost' = TRUE BY <2>2, <2>3, <2>6
      <3>2. TypeOK' BY <1>0, <2>1, <2>4, <3>1 DEF TypeOK, eicVars
      <3>3. MainFirst' BY <1>0, <3>1 DEF MainFirst
      <3> QED BY <1>0, <3>1, <3>2, <3>3 DEF Inv, Backlog, Booting, Slots
    <2> QED BY <2>3, <2>5, <2>6
  <1> QED BY <1>1, <1>2

-----------------------------------------------------------------------------
(* The theorems.                                                           *)

LEMMA InvAlways == Spec => []Inv
  <1>1. Init => Inv BY InitInv
  <1>2. Inv /\ [Next]_vars => Inv'
    <2> SUFFICES ASSUME Inv, [Next]_vars PROVE Inv' OBVIOUS
    <2>1. CASE CableChange BY <2>1, CableChangeInv
    <2>2. CASE Interrupt BY <2>2, InterruptInv
    <2>3. CASE EndOfInterrupt BY <2>3, EndOfInterruptInv
    <2>4. CASE SYS_Initialize BY <2>4, SYS_InitializeInv
    <2>5. CASE INIT_Tasks BY <2>5, INIT_TasksInv
    <2>6. CASE APP_Tasks BY <2>6, APP_TasksInv
    <2>7. CASE UNCHANGED vars
      <3>1. TypeOK' BY <2>7 DEF Inv, TypeOK, vars, eicVars
      <3> QED BY <2>7, <3>1, ManagersAlone DEF vars
    <2> QED BY <2>1, <2>2, <2>3, <2>4, <2>5, <2>6, <2>7 DEF Next, Program
  <1> QED BY <1>1, <1>2, PTL DEF Spec

(* The managers' variables keep their types: the app queue keeps to its    *)
(* size and no more MEMORY clients are open than there are.                *)
THEOREM ManagersTypeCorrect == Spec => []TypeOK
  <1>1. Inv => TypeOK BY DEF Inv
  <1> QED BY <1>1, InvAlways, PTL

(* The init actor's queue of eight never overflows, however the cable and  *)
(* the interrupt behave, and whether or not events arrive.                 *)
THEOREM BacklogBounded == Spec => []InitBacklog
  <1>1. ASSUME Inv PROVE InitBacklog
    <2>1. /\ Len(initQueue) \in Nat
          /\ pc \in Loop \cup {"NVIC_Initialize", "APP_Initialize", "INIT_Initialize",
                               "USB_Initialize"}
      BY <1>1, Types DEF Inv
    <2>2. CASE pc \in {"NVIC_Initialize", "APP_Initialize", "INIT_Initialize"}
      <3>1. initQueue = <<>> BY <1>1, <2>2 DEF Inv, Backlog
      <3> QED BY <3>1 DEF InitBacklog
    <2>3. CASE pc = "USB_Initialize"
      <3>1. initQueue = <<"MAIN_APP", "STORAGE", "NFC">> BY <1>1, <2>3 DEF Inv, Backlog
      <3> QED BY <3>1 DEF InitBacklog
    <2>4. CASE pc \in Loop
      BY <1>1, <2>1, <2>4 DEF Inv, Backlog, InitBacklog
    <2> QED BY <2>1, <2>2, <2>3, <2>4
  <1> QED BY <1>1, InvAlways, PTL

(* When the init actor has done what it was asked, the storage actor runs  *)
(* exactly if the mode is not USB, unless an event was lost on its way.    *)
THEOREM ModesAgreeAlways == Spec => []ModesAgree
  <1>1. Inv => ModesAgree
    BY DEF Inv, ModesAgree, Agreement, NoneAsked
  <1> QED BY <1>1, InvAlways, PTL
=============================================================================
