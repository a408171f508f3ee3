----------------------------- MODULE StorageProofs -----------------------------
(***************************************************************************)
(* Theorems about the storage actor.  The invariant says, for every state  *)
(* of the actor, which requests the driver may be working on and which     *)
(* events may be in the queue: at most one of the two is on its way.       *)
(***************************************************************************)
EXTENDS StorageManager, SequenceTheorems, TLAPS

Reading == request \in [op : {"read"}, page : Pages]
Checked == flash[CheckedPage] = "image"

(* Nothing is asked for before the first event.                            *)
InitInv == /\ request = NoRequest
           /\ queue = IF opened THEN <<"check">> ELSE <<"error", "check">>

(* The page read is in the buffer until it is compared.                    *)
ReadInv ==
    \/ request = [op |-> "read", page |-> CheckedPage] /\ queue = <<>>
    \/ request = NoRequest /\ queue = <<"success">> /\ pageBuffer = flash[CheckedPage]
    \/ request = NoRequest /\ queue = <<"fail">> /\ failed

VerifyInv ==
    /\ request = NoRequest
    /\ queue = <<"write">> \/ (queue = <<"verified">> /\ Checked)

WriteInv ==
    \/ request = [op |-> "erasewrite", page |-> 0] /\ queue = <<>>
    \/ request = NoRequest /\ queue = <<"success">> /\ Checked
    \/ request = NoRequest /\ queue = <<"fail">> /\ failed

SeekInv ==
    /\ Checked
    /\ \/ Reading /\ queue \in {<<>>, <<"find">>, <<"found">>}
       \/ /\ request = NoRequest
          /\ queue \in {<<"success">>, <<"find", "success">>, <<"found", "success">>}
       \/ /\ request = NoRequest /\ failed
          /\ queue \in {<<"fail">>, <<"find", "fail">>, <<"found", "fail">>}

IdleInv ==
    /\ Checked
    /\ \/ Reading /\ queue = <<>>
       \/ request = NoRequest /\ queue \in {<<>>, <<"success">>, <<"fail">>}

ErrorInv == /\ failed \/ ~opened
            /\ request = NoRequest /\ queue \in {<<>>, <<"check">>}

(* After the actor is closed, a report may still come.                     *)
ClosedInv == IF request = NoRequest THEN Len(queue) <= 2 ELSE Len(queue) <= 1

SessionInv ==
    /\ st = "init"   => InitInv
    /\ st = "read"   => opened /\ ReadInv
    /\ st = "verify" => opened /\ VerifyInv
    /\ st = "write"  => opened /\ WriteInv
    /\ st = "seek"   => opened /\ SeekInv
    /\ st = "idle"   => opened /\ IdleInv
    /\ st = "error"  => ErrorInv
    /\ st = "none"   => ClosedInv

(* The inductive invariant.                                                *)
Inv == TypeOK /\ SessionInv

-----------------------------------------------------------------------------
(* Taking the first event of a short queue, and putting one behind.        *)
LEMMA ShortQueues ==
    ASSUME NEW a, NEW b
    PROVE  /\ Head(<<a>>) = a /\ Tail(<<a>>) = <<>>
           /\ Head(<<a, b>>) = a /\ Tail(<<a, b>>) = <<b>>
           /\ Append(<<>>, a) = <<a>> /\ Append(<<a>>, b) = <<a, b>>
           /\ <<>> \o <<a>> = <<a>> /\ <<a>> \o <<b>> = <<a, b>>
           /\ <<>> \o <<>> = <<>>
           /\ Len(<<>>) = 0 /\ Len(<<a>>) = 1 /\ Len(<<a, b>>) = 2
  <1>1. Head(<<a>>) = a /\ Tail(<<a>>) = <<>>
    OBVIOUS
  <1>2. Head(<<a, b>>) = a
    OBVIOUS
  <1>3. Tail(<<a, b>>) = <<b>>
    OBVIOUS
  <1>4. Append(<<>>, a) = <<a>>
    OBVIOUS
  <1>5. Append(<<a>>, b) = <<a, b>>
    <2> DEFINE s == Append(<<a>>, b)
               t == <<a, b>>
    <2>1. s \in Seq({a, b}) /\ t \in Seq({a, b})
      OBVIOUS
    <2>2. Len(s) = 2 /\ Len(t) = 2
      OBVIOUS
    <2>3. s[1] = t[1] /\ s[2] = t[2]
      OBVIOUS
    <2>4. \A i \in 1 .. Len(s) : s[i] = t[i]
      <3> HIDE DEF s, t
      <3> QED
        BY <2>2, <2>3
    <2> HIDE DEF s, t
    <2>5. s = t
      BY <2>1, <2>2, <2>4, SeqEqual
    <2> QED
      BY <2>5 DEF s, t
  <1>6. <<>> \o <<a>> = <<a>>
    OBVIOUS
  <1>7. <<a>> \o <<b>> = <<a, b>>
    <2> DEFINE s == <<a>> \o <<b>>
               t == <<a, b>>
    <2>1. s \in Seq({a, b}) /\ t \in Seq({a, b})
      OBVIOUS
    <2>2. Len(s) = 2 /\ Len(t) = 2
      OBVIOUS
    <2>3. s[1] = t[1] /\ s[2] = t[2]
      OBVIOUS
    <2>4. \A i \in 1 .. Len(s) : s[i] = t[i]
      <3> HIDE DEF s, t
      <3> QED
        BY <2>2, <2>3
    <2> HIDE DEF s, t
    <2>5. s = t
      BY <2>1, <2>2, <2>4, SeqEqual
    <2> QED
      BY <2>5 DEF s, t
  <1>8. <<>> \o <<>> = <<>>
    OBVIOUS
  <1>9. Len(<<>>) = 0 /\ Len(<<a>>) = 1 /\ Len(<<a, b>>) = 2
    OBVIOUS
  <1> QED
    BY <1>1, <1>2, <1>3, <1>4, <1>5, <1>6, <1>7, <1>8, <1>9

(* A queue of one event, or of two, is not longer than that.               *)
LEMMA QueueLengths ==
    ASSUME NEW q, NEW a, NEW b
    PROVE  /\ q = <<>> => Len(q) <= 1 /\ Len(q) <= 2
           /\ q = <<a>> => Len(q) <= 1 /\ Len(q) <= 2
           /\ q = <<a, b>> => Len(q) <= 2
  <1>1. Len(<<>>) <= 1 /\ Len(<<>>) <= 2
    OBVIOUS
  <1>2. Len(<<a>>) <= 1 /\ Len(<<a>>) <= 2
    OBVIOUS
  <1>3. Len(<<a, b>>) <= 2
    OBVIOUS
  <1> QED
    BY <1>1, <1>2, <1>3, Zenon

(* The pages the actor asks for are pages of the flash.                    *)
LEMMA PageFacts ==
    /\ CheckedPage \in Pages /\ CheckedPage \in BootArea /\ 0 \in Pages
    /\ \A p \in 0 .. PageMod - 1 : p + LogStart \in Pages
    /\ \A p \in 0 .. PageMod - 1 : (p + 1) % PageMod \in 0 .. PageMod - 1
    /\ BootPages % PageMod \in 0 .. PageMod - 1
    /\ 0 \in 0 .. PageMod - 1
  BY StorageAssumption DEF Pages, BootArea

(* Traversing to a state keeps the buffer a page.                          *)
LEMMA TraverseType ==
    ASSUME TypeOK, NEW s \in States, Traverse(s)
    PROVE  st' \in States /\ pageBuffer' \in Contents
  BY DEF TypeOK, Traverse, Contents

(* The first state is one of the invariant.                                *)
LEMMA InitIsInv == Init => Inv
  <1> SUFFICES ASSUME Init PROVE Inv
    OBVIOUS
  <1>1. queue = IF opened THEN <<"check">> ELSE <<"error", "check">>
    BY ShortQueues DEF Init
  <1>2. TypeOK
    <2>1. queue \in Seq(Signals)
      <3>1. <<"check">> \in Seq(Signals) /\ <<"error", "check">> \in Seq(Signals)
        BY DEF Signals
      <3> QED
        BY <1>1, <3>1
    <2>2. flash \in [Pages -> Contents]
      BY DEF Init
    <2> QED
      BY <2>1, <2>2, PageFacts DEF Init, TypeOK, States, Contents
  <1>3. SessionInv
    BY <1>1 DEF Init, SessionInv, InitInv
  <1> QED
    BY <1>2, <1>3 DEF Inv

(* Every step keeps the types.                                             *)
LEMMA NextTypeOK == TypeOK /\ [Next]_vars => TypeOK'
  <1> SUFFICES ASSUME TypeOK, [Next]_vars PROVE TypeOK'
    OBVIOUS
  <1> USE PageFacts, StorageAssumption
  <1>1. ASSUME queue # <<>> PROVE Tail(queue) \in Seq(Signals)
    BY <1>1 DEF TypeOK
  <1>2. ErrorIfInvalid \in Seq(Signals)
    <2>1. <<>> \in Seq(Signals) /\ <<"error">> \in Seq(Signals)
      BY DEF Signals
    <2> QED
      BY <2>1 DEF ErrorIfInvalid
  <1>3. ASSUME NEW op \in {"read", "erasewrite"}, NEW p \in Pages, Ask(op, p)
        PROVE  request' \in Requests \cup {NoRequest}
    BY <1>3 DEF Ask, TypeOK, Requests
  <1>4. CASE ReadMemoryBootSector
    <2>1. st' \in States /\ pageBuffer' \in Contents
      BY <1>4, TraverseType DEF ReadMemoryBootSector, States
    <2>2. queue' \in Seq(Signals)
      BY <1>4, <1>1, <1>2 DEF ReadMemoryBootSector, On
    <2> QED
      BY <1>4, <1>3, <2>1, <2>2 DEF ReadMemoryBootSector, TypeOK
  <1>5. CASE VerifyMemoryBootSector
    <2>1. st' \in States /\ pageBuffer' \in Contents
      BY <1>5, TraverseType DEF VerifyMemoryBootSector, States
    <2>2. queue' \in Seq(Signals)
      BY <1>5, <1>1 DEF VerifyMemoryBootSector, On, Signals
    <2> QED
      BY <1>5, <2>1, <2>2 DEF VerifyMemoryBootSector, TypeOK
  <1>6. CASE WriteMemoryBootSector
    <2>1. st' \in States /\ pageBuffer' \in Contents
      BY <1>6, TraverseType DEF WriteMemoryBootSector, States
    <2>2. queue' \in Seq(Signals)
      BY <1>6, <1>1, <1>2 DEF WriteMemoryBootSector, On
    <2> QED
      BY <1>6, <1>3, <2>1, <2>2 DEF WriteMemoryBootSector, TypeOK
  <1>7. CASE SeekLastLogsNonEmptyPage
    <2>1. st' \in States /\ pageBuffer' \in Contents
      BY <1>7, TraverseType DEF SeekLastLogsNonEmptyPage, States
    <2>2. queue' \in Seq(Signals)
      BY <1>7, <1>1 DEF SeekLastLogsNonEmptyPage, SeeksOn, On, Signals
    <2>3. request' \in Requests \cup {NoRequest} /\ currentPage' \in 0 .. PageMod - 1
      BY <1>7, <1>3 DEF SeekLastLogsNonEmptyPage, NextPage, TypeOK
    <2> QED
      BY <1>7, <2>1, <2>2, <2>3 DEF SeekLastLogsNonEmptyPage, TypeOK
  <1>8. CASE Idle
    <2>1. st' \in States /\ pageBuffer' \in Contents
      BY <1>8, TraverseType DEF Idle, States
    <2> QED
      BY <1>8, <1>1, <2>1 DEF Idle, On, TypeOK
  <1>9. CASE Error
    <2>1. st' \in States /\ pageBuffer' \in Contents
      BY <1>9, TraverseType DEF Error, States
    <2> QED
      BY <1>9, <1>1, <2>1 DEF Error, GoesToError, On, TypeOK
  <1>10. CASE Drop
    BY <1>10, <1>1 DEF Drop, TypeOK
  <1>11. CASE Deinitialize
    BY <1>11 DEF Deinitialize, TypeOK, States
  <1>12. CASE Complete
    <2>1. request \in Requests /\ "success" \in Signals
      BY <1>12 DEF Complete, TypeOK, Signals
    <2>2. flash' \in [Pages -> Contents] /\ pageBuffer' \in Contents
      BY <1>12, <2>1 DEF Complete, TypeOK, Requests, Contents
    <2> QED
      BY <1>12, <2>1, <2>2 DEF Complete, Report, TypeOK
  <1>13. CASE Fail
    <2>1. request \in Requests /\ "fail" \in Signals
      BY <1>13 DEF Fail, TypeOK, Signals
    <2>2. flash' \in [Pages -> Contents] /\ pageBuffer' \in Contents
      <3>1. CASE request.op = "read"
        BY <1>13, <3>1 DEF Fail, TypeOK, Contents
      <3>2. CASE request.op # "read"
        <4>1. PICK left \in [EraseArea -> {"image", "erased", "other"}] :
                  flash' = [p \in Pages |-> IF p \in EraseArea THEN left[p] ELSE flash[p]]
          BY <1>13, <3>2 DEF Fail
        <4> QED
          BY <1>13, <3>2, <4>1 DEF Fail, TypeOK, Contents
      <3> QED
        BY <3>1, <3>2
    <2> QED
      BY <1>13, <2>1, <2>2 DEF Fail, Report, TypeOK
  <1>14. CASE UNCHANGED vars
    BY <1>14 DEF vars, TypeOK
  <1> QED
    BY <1>4, <1>5, <1>6, <1>7, <1>8, <1>9, <1>10, <1>11, <1>12, <1>13, <1>14
       DEF Next, Tasks, Driver

(* The actor's variables have their types, whatever the sizes.             *)
THEOREM StorageTypeCorrect == Spec => []TypeOK
  <1>1. Init => TypeOK
    BY InitIsInv DEF Inv
  <1> QED
    BY <1>1, NextTypeOK, PTL DEF Spec
(* Every step keeps what is on its way to the actor.                       *)
LEMMA NextSessionInv == Inv /\ [Next]_vars => SessionInv'
  <1> SUFFICES ASSUME TypeOK, SessionInv, [Next]_vars PROVE SessionInv'
    BY DEF Inv
  <1> USE PageFacts, ShortQueues
  <1>1. CASE ReadMemoryBootSector
    <2>1. st = "init" /\ opened /\ request = NoRequest /\ queue = <<"check">>
      BY <1>1 DEF ReadMemoryBootSector, On, SessionInv, InitInv
    <2>2. ErrorIfInvalid = <<>> /\ request' = [op |-> "read", page |-> CheckedPage]
      BY <1>1, <2>1 DEF ReadMemoryBootSector, ErrorIfInvalid, Ask, Accepted
    <2>3. st' = "read" /\ queue' = <<>> /\ opened'
      BY <1>1, <2>1, <2>2 DEF ReadMemoryBootSector, Traverse
    <2> QED
      BY <2>2, <2>3 DEF SessionInv, ReadInv
  <1>2. CASE VerifyMemoryBootSector
    <2>1. /\ st = "read" /\ opened /\ request = NoRequest
          /\ queue = <<"success">> /\ pageBuffer = flash[CheckedPage]
      BY <1>2 DEF VerifyMemoryBootSector, On, SessionInv, ReadInv
    <2>2. st' = "verify" /\ opened' /\ request' = NoRequest /\ flash' = flash
      BY <1>2, <2>1 DEF VerifyMemoryBootSector, Traverse
    <2>3. queue' = <<IF pageBuffer = "image" THEN "verified" ELSE "write">>
      BY <1>2, <2>1 DEF VerifyMemoryBootSector
    <2> QED
      BY <2>1, <2>2, <2>3 DEF SessionInv, VerifyInv, Checked
  <1>3. CASE WriteMemoryBootSector
    <2>1. st = "verify" /\ opened /\ request = NoRequest /\ queue = <<"write">>
      BY <1>3 DEF WriteMemoryBootSector, On, SessionInv, VerifyInv
    <2>2. ErrorIfInvalid = <<>> /\ request' = [op |-> "erasewrite", page |-> 0]
      BY <1>3, <2>1 DEF WriteMemoryBootSector, ErrorIfInvalid, Ask, Accepted
    <2>3. st' = "write" /\ queue' = <<>> /\ opened'
      BY <1>3, <2>1, <2>2 DEF WriteMemoryBootSector, Traverse
    <2> QED
      BY <2>2, <2>3 DEF SessionInv, WriteInv
  <1>4. CASE SeekLastLogsNonEmptyPage
    <2>1. opened /\ request = NoRequest /\ Tail(queue) = <<>> /\ Checked
      <3>1. CASE On("verify", "verified")
        BY <3>1 DEF On, SessionInv, VerifyInv
      <3>2. CASE On("write", "success")
        BY <3>2 DEF On, SessionInv, WriteInv
      <3>3. CASE On("seek", "success")
        BY <3>3 DEF On, SessionInv, SeekInv, Reading
      <3> QED
        BY <1>4, <3>1, <3>2, <3>3 DEF SeekLastLogsNonEmptyPage, SeeksOn
    <2>2. request' = [op |-> "read", page |-> currentPage + LogStart]
      BY <1>4, <2>1 DEF SeekLastLogsNonEmptyPage, Ask, Accepted
    <2>3. st' = "seek" /\ opened' /\ Checked'
      BY <1>4, <2>1 DEF SeekLastLogsNonEmptyPage, Traverse, Checked
    <2>4. queue' \in {<<"find">>, <<"found">>}
      BY <1>4, <2>1 DEF SeekLastLogsNonEmptyPage
    <2>5. currentPage + LogStart \in Pages
      BY DEF TypeOK
    <2> QED
      BY <2>2, <2>3, <2>4, <2>5 DEF SessionInv, SeekInv, Reading
  <1>5. CASE Idle
    <2>1. /\ st = "seek" /\ opened /\ Checked
          /\ queue \in {<<"found">>, <<"found", "success">>, <<"found", "fail">>}
          /\ Reading => queue = <<"found">>
          /\ ~Reading => request = NoRequest /\ queue # <<"found">>
      <3>1. st = "seek" /\ opened /\ SeekInv /\ queue # <<>> /\ Head(queue) = "found"
        BY <1>5 DEF Idle, On, SessionInv
      <3>2. request = NoRequest => ~Reading
        BY DEF Reading, NoRequest
      <3>3. \/ Reading /\ queue = <<"found">>
            \/ request = NoRequest /\ queue \in {<<"found", "success">>, <<"found", "fail">>}
        BY <3>1 DEF SeekInv
      <3>4. <<"found", "success">> # <<"found">> /\ <<"found", "fail">> # <<"found">>
        OBVIOUS
      <3> QED
        BY <3>1, <3>2, <3>3, <3>4 DEF SeekInv
    <2>2. st' = "idle" /\ opened' /\ Checked' /\ request' = request
      BY <1>5, <2>1 DEF Idle, Traverse, Checked
    <2>3. queue' = IF Reading THEN <<>> ELSE Tail(queue)
      BY <1>5, <2>1 DEF Idle
    <2>4. CASE Reading
      BY <2>2, <2>3, <2>4 DEF SessionInv, IdleInv, Reading
    <2>5. CASE ~Reading
      <3>1. queue' \in {<<"success">>, <<"fail">>}
        BY <2>1, <2>3, <2>5
      <3> QED
        BY <2>1, <2>2, <2>5, <3>1 DEF SessionInv, IdleInv
    <2> QED
      BY <2>4, <2>5
  <1>6. CASE Error
    <2>1. /\ request = NoRequest
          /\ Tail(queue) \in {<<>>, <<"check">>}
          /\ failed \/ ~opened
      <3>1. ASSUME NEW s \in States \ {"none"}, On(s, "error")
            PROVE  /\ request = NoRequest /\ ~opened
                   /\ queue = <<"error", "check">>
        BY <3>1 DEF On, States, SessionInv, InitInv, ReadInv, VerifyInv, WriteInv,
                    SeekInv, IdleInv, ErrorInv
      <3>2. ASSUME NEW s \in {"read", "write", "seek"}, On(s, "fail")
            PROVE  request = NoRequest /\ Tail(queue) = <<>> /\ failed
        <4>1. CASE s = "read"
          BY <3>2, <4>1 DEF On, SessionInv, ReadInv
        <4>2. CASE s = "write"
          BY <3>2, <4>2 DEF On, SessionInv, WriteInv
        <4>3. CASE s = "seek"
          <5>1. queue = <<"fail">> /\ request = NoRequest /\ failed
            BY <3>2, <4>3 DEF On, SessionInv, SeekInv
          <5> QED
            BY <5>1
        <4> QED
          BY <3>2, <4>1, <4>2, <4>3
      <3>3. Tail(<<"error", "check">>) = <<"check">>
        OBVIOUS
      <3>4. CASE \E s \in States \ {"none"} : On(s, "error")
        BY <3>1, <3>3, <3>4
      <3>5. CASE \E s \in {"read", "write", "seek"} : On(s, "fail")
        BY <3>2, <3>5
      <3> QED
        BY <1>6, <3>4, <3>5 DEF Error, GoesToError
    <2>2. st' = "error" /\ request' = request /\ queue' = Tail(queue)
          /\ failed' = failed /\ opened' = opened
      BY <1>6 DEF Error, Traverse
    <2> QED
      BY <2>1, <2>2 DEF SessionInv, ErrorInv
  <1>7. CASE Drop
    <2>1. /\ st' = st /\ request' = request /\ queue' = Tail(queue) /\ flash' = flash
          /\ opened' = opened /\ failed' = failed
      BY <1>7 DEF Drop
    <2>2. queue # <<>> /\ ~Handled /\ st # "none"
      BY <1>7 DEF Drop
    <2>3. CASE st = "seek"
      <3>1. /\ Checked /\ opened
            /\ \/ Reading /\ queue = <<"find">>
               \/ request = NoRequest /\ queue = <<"find", "success">>
               \/ request = NoRequest /\ failed /\ queue = <<"find", "fail">>
        BY <2>2, <2>3
           DEF SessionInv, SeekInv, Handled, SeeksOn, GoesToError, On, States
      <3>2. \/ Reading /\ queue' = <<>>
            \/ request = NoRequest /\ queue' = <<"success">>
            \/ request = NoRequest /\ failed /\ queue' = <<"fail">>
        <4>1. CASE queue = <<"find">>
          BY <2>1, <3>1, <4>1
        <4>2. CASE queue = <<"find", "success">>
          BY <2>1, <3>1, <4>2
        <4>3. CASE queue = <<"find", "fail">>
          BY <2>1, <3>1, <4>3
        <4> QED
          BY <3>1, <4>1, <4>2, <4>3
      <3> QED
        BY <2>1, <2>3, <3>1, <3>2 DEF SessionInv, SeekInv, Reading, Checked
    <2>4. CASE st = "idle"
      <3>1. Checked /\ opened /\ request = NoRequest /\ Tail(queue) = <<>>
        BY <2>2, <2>4 DEF SessionInv, IdleInv
      <3> QED
        BY <2>1, <2>4, <3>1 DEF SessionInv, IdleInv, Checked
    <2>5. CASE st = "error"
      <3>1. request = NoRequest /\ Tail(queue) = <<>> /\ (failed \/ ~opened)
        BY <2>2, <2>5 DEF SessionInv, ErrorInv
      <3> QED
        BY <2>1, <2>5, <3>1 DEF SessionInv, ErrorInv
    <2>6. st \in {"init", "read", "verify", "write"} => FALSE
      BY <2>2 DEF SessionInv, InitInv, ReadInv, VerifyInv, WriteInv,
                  Handled, SeeksOn, GoesToError, On, States
    <2> QED
      BY <2>2, <2>3, <2>4, <2>5, <2>6 DEF TypeOK, States
  <1>8. CASE Deinitialize
    <2>1. ClosedInv
      <3> HIDE ShortQueues, PageFacts
      <3>1. CASE queue = <<>>
        BY <3>1, QueueLengths DEF ClosedInv
      <3>2. CASE \E a \in Signals : queue = <<a>>
        BY <3>2, QueueLengths DEF ClosedInv
      <3>3. CASE request = NoRequest /\ \E a, b \in Signals : queue = <<a, b>>
        BY <3>3, QueueLengths DEF ClosedInv
      <3>4. \/ queue = <<>>
            \/ \E a \in Signals : queue = <<a>>
            \/ request = NoRequest /\ \E a, b \in Signals : queue = <<a, b>>
        <4>1. CASE st = "init"
          BY <4>1 DEF SessionInv, InitInv, Signals
        <4>2. CASE st = "read"
          BY <4>2 DEF SessionInv, ReadInv, Signals
        <4>3. CASE st = "verify"
          BY <4>3 DEF SessionInv, VerifyInv, Signals
        <4>4. CASE st = "write"
          BY <4>4 DEF SessionInv, WriteInv, Signals
        <4>5. CASE st = "seek"
          BY <4>5 DEF SessionInv, SeekInv, Signals
        <4>6. CASE st = "idle"
          BY <4>6 DEF SessionInv, IdleInv, Signals
        <4>7. CASE st = "error"
          BY <4>7 DEF SessionInv, ErrorInv, Signals
        <4> QED
          BY <1>8, <4>1, <4>2, <4>3, <4>4, <4>5, <4>6, <4>7 DEF Deinitialize, TypeOK, States
      <3> QED
        BY <3>1, <3>2, <3>3, <3>4
    <2>2. Len(queue) \in Nat
      BY DEF TypeOK
    <2>3. Len(queue) <= 2
      BY <2>1, <2>2 DEF ClosedInv
    <2>4. ClosedInv' /\ st' = "none"
      BY <1>8, <2>1, <2>3 DEF Deinitialize, ClosedInv
    <2> QED
      BY <2>4 DEF SessionInv
  <1>9. CASE Complete \/ Fail
    <2> DEFINE sig == IF Complete THEN "success" ELSE "fail"
    <2>1. /\ request # NoRequest /\ request' = NoRequest
          /\ st' = st /\ opened' = opened
      BY <1>9 DEF Complete, Fail
    <2>2. \/ Complete /\ queue' = Append(queue, "success") /\ failed' = failed
          \/ Fail /\ queue' = Append(queue, "fail") /\ failed'
      BY <1>9 DEF Complete, Fail, Report
    <2>3. CASE st = "read"
      <3>1. request = [op |-> "read", page |-> CheckedPage] /\ queue = <<>> /\ opened
        BY <2>1, <2>3 DEF SessionInv, ReadInv
      <3>2. Complete => pageBuffer' = flash'[CheckedPage]
        BY <3>1 DEF Complete
      <3> QED
        BY <2>1, <2>2, <2>3, <3>1, <3>2 DEF SessionInv, ReadInv
    <2>4. CASE st = "write"
      <3>1. request = [op |-> "erasewrite", page |-> 0] /\ queue = <<>> /\ opened
        BY <2>1, <2>4 DEF SessionInv, WriteInv
      <3>2. Complete => flash'[CheckedPage] = "image"
        BY <3>1 DEF Complete
      <3> QED
        BY <2>1, <2>2, <2>4, <3>1, <3>2 DEF SessionInv, WriteInv, Checked
    <2>5. CASE st = "seek"
      <3>1. Reading /\ queue \in {<<>>, <<"find">>, <<"found">>} /\ Checked /\ opened
        BY <2>1, <2>5 DEF SessionInv, SeekInv
      <3>2. flash' = flash
        BY <1>9, <3>1 DEF Complete, Fail, Reading
      <3>3. \/ queue' \in {<<"success">>, <<"find", "success">>, <<"found", "success">>}
            \/ failed' /\ queue' \in {<<"fail">>, <<"find", "fail">>, <<"found", "fail">>}
        <4>1. CASE queue = <<>>
          BY <2>2, <4>1
        <4>2. CASE queue = <<"find">>
          BY <2>2, <4>2
        <4>3. CASE queue = <<"found">>
          BY <2>2, <4>3
        <4> QED
          BY <3>1, <4>1, <4>2, <4>3
      <3> QED
        BY <2>1, <2>5, <3>1, <3>2, <3>3 DEF SessionInv, SeekInv, Checked
    <2>6. CASE st = "idle"
      <3>1. Reading /\ queue = <<>> /\ Checked /\ opened
        BY <2>1, <2>6 DEF SessionInv, IdleInv
      <3>2. flash' = flash
        BY <1>9, <3>1 DEF Complete, Fail, Reading
      <3>3. queue' \in {<<"success">>, <<"fail">>}
        BY <2>2, <3>1
      <3> QED
        BY <2>1, <2>6, <3>1, <3>2, <3>3 DEF SessionInv, IdleInv, Checked
    <2>7. CASE st = "none"
      <3>1. Len(queue) <= 1 /\ queue \in Seq(Signals)
        BY <2>1, <2>7 DEF SessionInv, ClosedInv, TypeOK
      <3>2. Len(queue') <= 2
        BY <2>2, <3>1
      <3> QED
        BY <2>1, <2>7, <3>2 DEF SessionInv, ClosedInv
    <2>8. st \in {"init", "verify", "error"} => FALSE
      BY <2>1 DEF SessionInv, InitInv, VerifyInv, ErrorInv
    <2> QED
      BY <2>3, <2>4, <2>5, <2>6, <2>7, <2>8 DEF TypeOK, States
  <1>10. CASE UNCHANGED vars
    BY <1>10 DEF vars, SessionInv, InitInv, ReadInv, VerifyInv, WriteInv, SeekInv,
                 IdleInv, ErrorInv, ClosedInv, Checked, Reading
  <1> QED
    BY <1>1, <1>2, <1>3, <1>4, <1>5, <1>6, <1>7, <1>8, <1>9, <1>10
       DEF Next, Tasks, Driver
-----------------------------------------------------------------------------
(* The theorems.                                                           *)

(* The invariant holds throughout.                                         *)
LEMMA SpecInv == Spec => []Inv
  <1>1. Inv /\ [Next]_vars => Inv'
    BY NextTypeOK, NextSessionInv DEF Inv
  <1> QED
    BY InitIsInv, <1>1, PTL DEF Spec

(* storage_manager_fsm.c:79-110: when the search of the log begins, the    *)
(* checked page of the boot sector is the image's, for every size of the   *)
(* areas of the flash and every content it had.                            *)
THEOREM BootSectorChecked == Spec => []BootSectorValid
  <1>1. Inv => BootSectorValid
    BY DEF Inv, SessionInv, SeekInv, IdleInv, BootSectorValid, Checked
  <1> QED
    BY SpecInv, <1>1, PTL

(* The actor gives up only for a reason below it.                          *)
THEOREM ErrorsComeFromBelow == Spec => []ErrorMeansFailure
  <1>1. Inv => ErrorMeansFailure
    BY DEF Inv, SessionInv, ErrorInv, ErrorMeansFailure
  <1> QED
    BY SpecInv, <1>1, PTL

(* Two events are the most that ever wait in the actor's queue.            *)
THEOREM QueueNeverOverflows == Spec => []QueueHolds
  <1>1. Inv => QueueHolds
    <2> SUFFICES ASSUME Inv PROVE Len(queue) <= 2
      BY DEF QueueHolds
    <2>1. CASE st = "none"
      <3>1. Len(queue) \in Nat
        BY DEF Inv, TypeOK
      <3> QED
        BY <2>1, <3>1 DEF Inv, SessionInv, ClosedInv
    <2>2. \/ st = "none"
          \/ queue = <<>>
          \/ \E a \in Signals : queue = <<a>>
          \/ \E a, b \in Signals : queue = <<a, b>>
      <3>1. CASE st = "init"
        BY <3>1 DEF Inv, SessionInv, InitInv, Signals
      <3>2. CASE st = "read"
        BY <3>2 DEF Inv, SessionInv, ReadInv, Signals
      <3>3. CASE st = "verify"
        BY <3>3 DEF Inv, SessionInv, VerifyInv, Signals
      <3>4. CASE st = "write"
        BY <3>4 DEF Inv, SessionInv, WriteInv, Signals
      <3>5. CASE st = "seek"
        BY <3>5 DEF Inv, SessionInv, SeekInv, Signals
      <3>6. CASE st = "idle"
        BY <3>6 DEF Inv, SessionInv, IdleInv, Signals
      <3>7. CASE st = "error"
        BY <3>7 DEF Inv, SessionInv, ErrorInv, Signals
      <3> QED
        BY <3>1, <3>2, <3>3, <3>4, <3>5, <3>6, <3>7 DEF Inv, TypeOK, States
    <2> QED
      BY <2>1, <2>2, QueueLengths
  <1> QED
    BY SpecInv, <1>1, PTL

(* The search for an empty page compares with the program's own bytes: if  *)
(* no page of the flash is like them, it never succeeds, so IDLE, the only *)
(* state in which the actor would store data, is never reached.            *)
THEOREM SearchNeverSucceeds ==
    ASSUME Alike = FALSE PROVE Spec => [](st # "idle")
  <1> DEFINE NoCode == pageBuffer # "code" /\ \A p \in Pages : flash[p] # "code"
             NotFound == \A n \in 1 .. Len(queue) : queue[n] # "found"
             Never == st # "idle" /\ NoCode /\ NotFound
  <1>1. Init => Never
    <2> SUFFICES ASSUME Init PROVE Never
      OBVIOUS
    <2>1. queue = <<"check">> \/ queue = <<"error", "check">>
      BY ShortQueues DEF Init
    <2>2. NotFound
      BY <2>1
    <2> QED
      BY <2>2 DEF Init
  <1>2. TypeOK /\ Never /\ [Next]_vars => Never'
    <2> SUFFICES ASSUME TypeOK, Never, [Next]_vars PROVE Never'
      OBVIOUS
    <2>1. ASSUME queue # <<>> PROVE /\ Tail(queue) \in Seq(Signals)
                                    /\ \A n \in 1 .. Len(Tail(queue)) : Tail(queue)[n] # "found"
                                    /\ Head(queue) # "found"
      BY <2>1, HeadTailProperties DEF TypeOK
    <2>2. ASSUME NEW q \in Seq(Signals), NEW sig \in Signals \ {"found"},
                 \A n \in 1 .. Len(q) : q[n] # "found", queue' = Append(q, sig)
          PROVE  NotFound'
      BY <2>2
    <2>3. ASSUME Tail(queue) \in Seq(Signals), queue # <<>>, queue' = Tail(queue) \o ErrorIfInvalid
          PROVE  NotFound'
      <3>1. <<>> \in Seq(Signals) /\ <<"error">> \in Seq(Signals) /\ "error" \in Signals
        BY DEF Signals
      <3>2. CASE Accepted
        BY <2>1, <2>3, <3>1, <3>2, ConcatProperties DEF ErrorIfInvalid
      <3>3. CASE ~Accepted
        BY <2>1, <2>3, <3>1, <3>3, ConcatProperties DEF ErrorIfInvalid
      <3> QED
        BY <3>2, <3>3
    <2>4. ASSUME NEW s, s # "idle", Traverse(s), flash' = flash
          PROVE  st' # "idle" /\ NoCode'
      BY <2>4 DEF Traverse
    <2>5. CASE ReadMemoryBootSector
      BY <2>1, <2>3, <2>4, <2>5 DEF ReadMemoryBootSector, On
    <2>6. CASE VerifyMemoryBootSector
      <3>1. NotFound'
        BY <2>1, <2>2, <2>6 DEF VerifyMemoryBootSector, On, Signals
      <3> QED
        BY <2>4, <2>6, <3>1 DEF VerifyMemoryBootSector
    <2>7. CASE WriteMemoryBootSector
      BY <2>1, <2>3, <2>4, <2>7 DEF WriteMemoryBootSector, On
    <2>8. CASE SeekLastLogsNonEmptyPage
      <3>1. queue # <<>> /\ queue' = Append(Tail(queue), "find") /\ "find" \in Signals
        BY <2>8 DEF SeekLastLogsNonEmptyPage, SeeksOn, On, Signals
      <3>2. NotFound'
        BY <2>1, <2>2, <3>1
      <3> QED
        BY <2>4, <2>8, <3>2 DEF SeekLastLogsNonEmptyPage
    <2>9. CASE Idle
      BY <2>1, <2>9 DEF Idle, On
    <2>10. CASE Error
      <3>1. queue # <<>> /\ queue' = Tail(queue)
        BY <2>10 DEF Error, GoesToError, On
      <3> QED
        BY <2>1, <2>4, <2>10, <3>1 DEF Error
    <2>11. CASE Drop
      BY <2>1, <2>11 DEF Drop
    <2>12. CASE Deinitialize
      BY <2>12 DEF Deinitialize
    <2>13. CASE Complete
      <3>1. request \in Requests /\ "success" \in Signals
        BY <2>13 DEF Complete, TypeOK, Signals
      <3>2. NoCode'
        BY <2>13, <3>1 DEF Complete, TypeOK, Requests
      <3>3. NotFound'
        BY <2>2, <2>13, <3>1 DEF Complete, Report, TypeOK
      <3> QED
        BY <2>13, <3>2, <3>3 DEF Complete
    <2>14. CASE Fail
      <3>1. request \in Requests /\ "fail" \in Signals
        BY <2>14 DEF Fail, TypeOK, Signals
      <3>2. NoCode'
        <4>1. CASE request.op = "read"
          BY <2>14, <4>1 DEF Fail
        <4>2. CASE request.op # "read"
          <5>1. PICK left \in [EraseArea -> {"image", "erased", "other"}] :
                    flash' = [p \in Pages |-> IF p \in EraseArea THEN left[p] ELSE flash[p]]
            BY <2>14, <4>2 DEF Fail
          <5> QED
            BY <2>14, <4>2, <5>1 DEF Fail
        <4> QED
          BY <4>1, <4>2
      <3>3. NotFound'
        BY <2>2, <2>14, <3>1 DEF Fail, Report, TypeOK
      <3> QED
        BY <2>14, <3>2, <3>3 DEF Fail
    <2>15. CASE UNCHANGED vars
      BY <2>15 DEF vars
    <2> QED
      BY <2>5, <2>6, <2>7, <2>8, <2>9, <2>10, <2>11, <2>12, <2>13, <2>14, <2>15
         DEF Next, Tasks, Driver
  <1>3. Never => st # "idle"
    OBVIOUS
  <1> HIDE DEF Never
  <1> QED
    BY <1>1, <1>2, <1>3, StorageTypeCorrect, PTL DEF Spec
=============================================================================
