------------------------------- MODULE NfcProofs -------------------------------
(***************************************************************************)
(* Theorems about the NFC actor.  The invariant looks at what is on its    *)
(* way to the actor: a transfer in the I2C driver or its report in the     *)
(* queue, never both and never two, and says what either is about.         *)
(***************************************************************************)
EXTENDS Nfc, TLAPS

Reports == {"success", "fail"}

(* The events in a queue, and that at most one of them is a report.        *)
Content(q) == {q[k] : k \in 1 .. Len(q)}
OneReport(q) == \A j, k \in 1 .. Len(q) : q[j] \in Reports /\ q[k] \in Reports => j = k

Waiting == Content(queue)
NoReport == Waiting \cap Reports = {}

(* A transfer and its report are not there together.                       *)
OneOnItsWay ==
    /\ i2c \in {<<>>} \cup {<<r>> : r \in Transfers}
    /\ OneReport(queue)
    /\ i2c # <<>> => NoReport
    /\ \A r \in Settings : i2c = <<r>> => transferBuf = r

Quiet == i2c = <<>> /\ NoReport

(* A step of the preparation has been sent; the ones before it are done.   *)
Sending ==
    /\ ft \in 1 .. Len(Registers)
    /\ transferBuf = Registers[ft]
    /\ i2c \in {<<>>, <<Registers[ft]>>}
    /\ \A j \in 1 .. ft - 1 : Registers[j] \in tag
    /\ "success" \in Waiting => Registers[ft] \in tag

Prepared == ft = FTModeEnabled /\ Quiet /\ tag = Settings

SessionInv ==
    /\ pc = "verify"   => st \in {"readUID", "prepare"} /\ Sending
    /\ st = "init"     => Quiet /\ ft = 0
    /\ st = "readUID"  => pc = "verify" \/ (ft = 0 /\ i2c \in {<<>>, <<"UID">>})
    /\ st = "prepare"  => Sending \/ Prepared
    /\ st = "idle"     => Quiet /\ tag = Settings
    /\ st = "readStatus" => i2c \in {<<>>, <<"ITSTS_DYN">>} /\ tag = Settings
    /\ "ready" \in Waiting => ft = FTModeEnabled

(* Who leads to ERROR, and why.                                            *)
ErrorInv ==
    /\ "error" \in Waiting => ~opened
    /\ "maxRetries" \in Waiting => failures >= RetriesMax - Len(Registers)
    /\ "fail" \in Waiting /\ st = "readUID" /\ pc = "loop" => "UID" \in missed
    /\ GivesUpLate

(* Every transfer of the preparation has used up a retry; it has failed,   *)
(* or has led to the next step, or is still on its way.                    *)
Failed == IF "fail" \in Waiting THEN 1 ELSE 0
RetriesInv ==
    /\ st \in {"init", "readUID"} => retriesLeft = RetriesMax
    /\ pc = "loop" /\ st = "prepare" =>
           failures + retriesLeft + ft >= RetriesMax + Failed
    /\ pc = "verify" =>
           /\ failures + retriesLeft + ft >= RetriesMax
           /\ retriesLeft > 0 => failures + retriesLeft + ft >= RetriesMax + 1 + Failed

(* The inductive invariant.                                                *)
Inv == TypeOK /\ OneOnItsWay /\ SessionInv /\ ErrorInv /\ RetriesInv

-----------------------------------------------------------------------------
(* Registers, counters and queues.                                         *)

LEMMA RegistersAre ==
    /\ Len(Registers) = 4 /\ FTModeEnabled = 5
    /\ Settings = {"I2C_PWD", "MB_MODE", "MB_CTRL_DYN", "GPO"}
    /\ Settings = {Registers[1], Registers[2], Registers[3], Registers[4]}
    /\ \A k \in 1 .. 4 : Registers[k] \in Settings /\ Registers[k] \in Transfers
  BY DEF Registers, FTModeEnabled, Settings, Transfers

LEMMA RetryTaken ==
    ASSUME NEW r \in 0 .. ByteMod - 1
    PROVE  (r - 1) % ByteMod = IF r = 0 THEN ByteMod - 1 ELSE r - 1
  BY NfcAssumption

(* What taking the oldest event leaves.                                    *)
LEMMA TailOfQueue ==
    ASSUME NEW q \in Seq(Signals), q # <<>>
    PROVE  /\ Tail(q) \in Seq(Signals) /\ Len(Tail(q)) = Len(q) - 1
           /\ Len(q) \in Nat \ {0}
           /\ Head(q) \in Content(q) /\ Head(q) \in Signals
           /\ Content(Tail(q)) \subseteq Content(q)
           /\ OneReport(q) => OneReport(Tail(q))
           /\ OneReport(q) /\ Head(q) \in Reports => Content(Tail(q)) \cap Reports = {}
  <1>1. /\ Tail(q) \in Seq(Signals) /\ Len(Tail(q)) = Len(q) - 1
        /\ Len(q) \in Nat \ {0} /\ Head(q) = q[1] /\ Head(q) \in Signals
        /\ \A k \in 1 .. Len(Tail(q)) : Tail(q)[k] = q[k + 1] /\ k + 1 \in 1 .. Len(q)
    OBVIOUS
  <1>2. Head(q) \in Content(q) BY <1>1 DEF Content
  <1>3. Content(Tail(q)) \subseteq Content(q) BY <1>1 DEF Content
  <1>4. ASSUME OneReport(q) PROVE OneReport(Tail(q))
    BY <1>1, <1>4 DEF OneReport
  <1>5. ASSUME OneReport(q), Head(q) \in Reports PROVE Content(Tail(q)) \cap Reports = {}
    <2> SUFFICES ASSUME NEW k \in 1 .. Len(Tail(q)), Tail(q)[k] \in Reports PROVE FALSE
      BY DEF Content
    <2>1. k + 1 \in 1 .. Len(q) /\ 1 \in 1 .. Len(q) /\ q[k + 1] \in Reports /\ q[1] \in Reports
      BY <1>1, <1>5
    <2>2. k + 1 = 1 BY <1>5, <2>1 DEF OneReport
    <2> QED BY <2>2
  <1> QED BY <1>1, <1>2, <1>3, <1>4, <1>5

(* What events added at its end make of a queue.                           *)
LEMMA MoreInQueue ==
    ASSUME NEW q \in Seq(Signals), NEW s \in Seq(Signals),
           OneReport(q), OneReport(s),
           Content(q) \cap Reports = {} \/ Content(s) \cap Reports = {}
    PROVE  /\ q \o s \in Seq(Signals) /\ Len(q \o s) = Len(q) + Len(s)
           /\ Content(q \o s) \subseteq Content(q) \cup Content(s)
           /\ OneReport(q \o s)
  <1>1. /\ q \o s \in Seq(Signals) /\ Len(q \o s) = Len(q) + Len(s)
        /\ Len(q) \in Nat /\ Len(s) \in Nat
        /\ \A k \in 1 .. Len(q) : (q \o s)[k] = q[k]
        /\ \A k \in 1 .. Len(q \o s) :
               k > Len(q) => (q \o s)[k] = s[k - Len(q)] /\ k - Len(q) \in 1 .. Len(s)
    OBVIOUS
  <1>2. \A k \in 1 .. Len(q \o s) :
            \/ k \in 1 .. Len(q) /\ (q \o s)[k] = q[k] /\ q[k] \in Content(q)
            \/ /\ k - Len(q) \in 1 .. Len(s) /\ (q \o s)[k] = s[k - Len(q)]
               /\ s[k - Len(q)] \in Content(s)
    <2> SUFFICES ASSUME NEW k \in 1 .. Len(q \o s)
                 PROVE  \/ k \in 1 .. Len(q) /\ (q \o s)[k] = q[k] /\ q[k] \in Content(q)
                        \/ /\ k - Len(q) \in 1 .. Len(s) /\ (q \o s)[k] = s[k - Len(q)]
                           /\ s[k - Len(q)] \in Content(s)
      OBVIOUS
    <2>1. k \in 1 .. Len(q) \/ k > Len(q) BY <1>1
    <2>2. CASE k \in 1 .. Len(q) BY <1>1, <2>2 DEF Content
    <2>3. CASE k > Len(q) BY <1>1, <2>3 DEF Content
    <2> QED BY <2>1, <2>2, <2>3
  <1>3. Content(q \o s) \subseteq Content(q) \cup Content(s)
    <2> SUFFICES ASSUME NEW k \in 1 .. Len(q \o s)
                 PROVE  (q \o s)[k] \in Content(q) \cup Content(s)
      BY DEF Content
    <2> QED BY <1>2
  <1>4. OneReport(q \o s)
    <2> SUFFICES ASSUME NEW j \in 1 .. Len(q \o s), NEW k \in 1 .. Len(q \o s),
                        (q \o s)[j] \in Reports, (q \o s)[k] \in Reports
                 PROVE  j = k
      BY DEF OneReport
    <2>1. CASE Content(s) \cap Reports = {}
      <3>1. /\ j \in 1 .. Len(q) /\ k \in 1 .. Len(q)
            /\ q[j] \in Reports /\ q[k] \in Reports
        BY <1>2, <2>1
      <3> QED BY <3>1 DEF OneReport
    <2>2. CASE Content(q) \cap Reports = {}
      <3>1. /\ j - Len(q) \in 1 .. Len(s) /\ k - Len(q) \in 1 .. Len(s)
            /\ s[j - Len(q)] \in Reports /\ s[k - Len(q)] \in Reports
        BY <1>2, <2>2
      <3>2. j - Len(q) = k - Len(q) BY <3>1 DEF OneReport
      <3> QED BY <1>1, <3>2
    <2> QED BY <2>1, <2>2
  <1> QED BY <1>1, <1>3, <1>4

LEMMA OneMore ==
    ASSUME NEW q \in Seq(Signals), NEW e \in Signals, OneReport(q), Len(q) <= QueueMax,
           Content(q) \cap Reports = {} \/ e \notin Reports
    PROVE  /\ Dispatched(q, <<e>>) \in Seq(Signals) /\ Len(Dispatched(q, <<e>>)) <= QueueMax
           /\ Content(Dispatched(q, <<e>>)) \subseteq Content(q) \cup {e}
           /\ OneReport(Dispatched(q, <<e>>))
           /\ Append(q, e) = q \o <<e>>
           /\ q \o <<e>> \in Seq(Signals) /\ Len(q \o <<e>>) = Len(q) + 1
           /\ Content(q \o <<e>>) \subseteq Content(q) \cup {e}
           /\ OneReport(q \o <<e>>)
  <1>1. /\ <<e>> \in Seq(Signals) /\ Len(<<e>>) = 1 /\ <<e>>[1] = e /\ Append(q, e) = q \o <<e>>
    OBVIOUS
  <1>2. Content(<<e>>) = {e} /\ OneReport(<<e>>) BY <1>1 DEF Content, OneReport
  <1>3. Content(q) \cap Reports = {} \/ Content(<<e>>) \cap Reports = {} BY <1>2
  <1>4. /\ q \o <<e>> \in Seq(Signals) /\ Len(q \o <<e>>) = Len(q) + 1
        /\ Content(q \o <<e>>) \subseteq Content(q) \cup {e}
        /\ OneReport(q \o <<e>>)
    BY <1>1, <1>2, <1>3, MoreInQueue
  <1>5. CASE Len(q) + Len(<<e>>) <= QueueMax
    <2>1. Dispatched(q, <<e>>) = q \o <<e>> BY <1>5 DEF Dispatched
    <2> QED BY <1>1, <1>4, <1>5, <2>1
  <1>6. CASE ~(Len(q) + Len(<<e>>) <= QueueMax)
    <2>1. Dispatched(q, <<e>>) = q BY <1>6 DEF Dispatched
    <2> QED BY <1>1, <1>4, <2>1
  <1> QED BY <1>5, <1>6

(* A refused transfer leaves error events, and nothing else does.          *)
LEMMA ErrorsInQueue ==
    ASSUME NEW q \in Seq(Signals), NEW times \in {1, 2}, OneReport(q), Len(q) <= QueueMax
    PROVE  LET r == ErrorOnInvalidTransfer(q, times)
           IN  /\ r \in Seq(Signals) /\ Len(r) <= QueueMax /\ OneReport(r)
               /\ Content(r) \subseteq Content(q) \cup {"error"}
               /\ "error" \in Content(r) => "error" \in Content(q) \/ Refused
  <1> DEFINE n == IF Refused THEN times ELSE 0
             s == [k \in 1 .. n |-> "error"]
             r == ErrorOnInvalidTransfer(q, times)
  <1>0. n \in Nat /\ "error" \in Signals /\ "error" \notin Reports BY DEF Signals, Reports
  <1>1. s \in Seq(Signals) /\ Len(s) = n /\ \A k \in 1 .. n : s[k] = "error"
    <2> HIDE DEF n
    <2> QED BY <1>0
  <1>2. /\ Content(s) \subseteq {"error"} /\ Content(s) \cap Reports = {}
        /\ ~Refused => Content(s) = {}
    <2>1. Content(s) \subseteq {"error"} BY <1>1 DEF Content
    <2>2. ~Refused => n = 0 OBVIOUS
    <2>3. n = 0 => Content(s) = {} BY <1>1 DEF Content
    <2> QED BY <1>0, <2>1, <2>2, <2>3
  <1>3. OneReport(s) BY <1>0, <1>1 DEF OneReport
  <1>4. r = IF Len(q) + Len(s) <= QueueMax THEN q \o s ELSE q
    BY DEF ErrorOnInvalidTransfer, Dispatched
  <1> HIDE DEF s, r
  <1>5. /\ q \o s \in Seq(Signals) /\ Len(q \o s) = Len(q) + Len(s)
        /\ Content(q \o s) \subseteq Content(q) \cup Content(s) /\ OneReport(q \o s)
    BY <1>1, <1>2, <1>3, MoreInQueue
  <1>8. /\ r \in Seq(Signals) /\ Len(r) <= QueueMax /\ OneReport(r)
        /\ Content(r) \subseteq Content(q) \cup {"error"}
        /\ "error" \in Content(r) => "error" \in Content(q) \/ Refused
    <2>1. CASE Len(q) + Len(s) <= QueueMax
      <3>1. r = q \o s BY <1>4, <2>1
      <3>2. Content(r) \subseteq Content(q) \cup Content(s) BY <1>5, <3>1
      <3>3. Len(r) <= QueueMax BY <1>5, <2>1, <3>1
      <3> QED BY <1>2, <1>5, <3>1, <3>2, <3>3, Zenon
    <2>2. CASE ~(Len(q) + Len(s) <= QueueMax)
      <3>1. r = q BY <1>4, <2>2
      <3> QED BY <3>1
    <2> QED BY <2>1, <2>2
  <1> QED BY <1>8 DEF r

-----------------------------------------------------------------------------
(* Facts every step starts from.                                           *)

LEMMA Types ==
    ASSUME TypeOK
    PROVE  /\ queue \in Seq(Signals) /\ Len(queue) <= QueueMax /\ Len(queue) \in Nat
           /\ ft \in 0 .. 5 /\ retriesLeft \in 0 .. ByteMod - 1 /\ failures \in 0 .. RetriesMax
           /\ tag \subseteq Settings /\ i2c \in Seq(Transfers)
           /\ transferBuf \in Settings \cup {"none"}
           /\ RetriesMax \in Nat /\ ByteMod \in Nat /\ RetriesMax > 0 /\ RetriesMax < ByteMod
           /\ QueueMax \in Nat /\ QueueMax > 2 /\ I2CQueueMax \in Nat /\ I2CQueueMax > 0
  <1>1. queue \in Seq(Signals) BY DEF TypeOK
  <1>2. Len(queue) \in Nat BY <1>1
  <1> QED BY <1>1, <1>2, RegistersAre, NfcAssumption DEF TypeOK

(* The oldest event is taken.                                              *)
LEMMA Consumed ==
    ASSUME Inv, queue # <<>>
    PROVE  /\ Tail(queue) \in Seq(Signals)
           /\ Len(Tail(queue)) + 1 <= QueueMax /\ Len(Tail(queue)) \in Nat
           /\ Head(queue) \in Waiting /\ Content(Tail(queue)) \subseteq Waiting
           /\ OneReport(Tail(queue))
           /\ Head(queue) \in Reports => i2c = <<>> /\ Content(Tail(queue)) \cap Reports = {}
  <1>1. queue \in Seq(Signals) /\ Len(queue) <= QueueMax /\ Len(queue) \in Nat BY Types DEF Inv
  <1>2. OneReport(queue) /\ (i2c # <<>> => Waiting \cap Reports = {})
    BY DEF Inv, OneOnItsWay, NoReport
  <1>3. QueueMax \in Nat BY NfcAssumption
  <1> QED BY <1>1, <1>2, <1>3, TailOfQueue DEF Waiting

(* A transfer is added to a driver that has none.                          *)
LEMMA Added ==
    ASSUME NEW register \in Transfers, i2c = <<>>, TransferAdd(register), opened \in BOOLEAN
    PROVE  /\ i2c' \in {<<>>, <<register>>} /\ i2c' \in Seq(Transfers)
           /\ Refused => ~opened
  <1>1. Len(i2c) = 0 /\ Append(i2c, register) = <<register>> OBVIOUS
  <1>2. <<>> \in Seq(Transfers) /\ <<register>> \in Seq(Transfers) OBVIOUS
  <1>3. Refused => ~opened BY <1>1, NfcAssumption DEF Refused
  <1> QED BY <1>1, <1>2, <1>3 DEF TransferAdd

(* A transition may refresh the retries when it leaves PREPARE_MAILBOX.    *)
LEMMA LeavingPrepare ==
    ASSUME TypeOK, NEW s, NEW left \in 0 .. ByteMod - 1, Traverse(s, left)
    PROVE  /\ st' = s /\ retriesLeft' \in 0 .. ByteMod - 1
           /\ retriesLeft' = left \/ (st = "prepare" /\ retriesLeft' = RetriesMax)
  BY NfcAssumption DEF Traverse

-----------------------------------------------------------------------------
(* The initial states.                                                     *)

LEMMA InitInv == Init => Inv
  <1> SUFFICES ASSUME Init PROVE Inv OBVIOUS
  <1>1. PICK a \in {<<>>, <<"error">>}, p \in {<<>>, <<"pulse">>} :
            queue = a \o p \o <<"readUID">> /\ (opened => a = <<>>)
    <2>1. PICK p \in {<<>>} \cup (IF MaxPulses > 0 THEN {<<"pulse">>} ELSE {}) :
              queue = (IF opened THEN <<>> ELSE <<"error">>) \o p \o <<"readUID">>
      BY DEF Init
    <2>2. p \in {<<>>, <<"pulse">>} BY <2>1
    <2> QED BY <2>1, <2>2
  <1>2. /\ a \in Seq(Signals) /\ Len(a) \in {0, 1} /\ Content(a) \subseteq {"error"}
        /\ opened => Content(a) = {}
        /\ p \in Seq(Signals) /\ Len(p) \in {0, 1} /\ Content(p) \subseteq {"pulse"}
        /\ <<"readUID">> \in Seq(Signals) /\ Len(<<"readUID">>) = 1
        /\ Content(<<"readUID">>) = {"readUID"}
        /\ OneReport(a) /\ OneReport(p) /\ OneReport(<<"readUID">>)
    <2>1. a \in Seq(Signals) /\ p \in Seq(Signals) /\ <<"readUID">> \in Seq(Signals)
      <3>1. \A e \in Signals : <<e>> \in Seq(Signals) OBVIOUS
      <3>2. <<>> \in Seq(Signals) OBVIOUS
      <3>3. "error" \in Signals /\ "pulse" \in Signals /\ "readUID" \in Signals BY DEF Signals
      <3> QED BY <3>1, <3>2, <3>3
    <2>2. /\ Len(<<>>) = 0 /\ Len(<<"error">>) = 1 /\ Len(<<"pulse">>) = 1 /\ Len(<<"readUID">>) = 1
      OBVIOUS
    <2>3. /\ Content(<<>>) = {} /\ Content(<<"error">>) = {"error"}
          /\ Content(<<"pulse">>) = {"pulse"} /\ Content(<<"readUID">>) = {"readUID"}
      BY <2>2 DEF Content
    <2>4. \A e : OneReport(<<e>>) BY DEF OneReport
    <2>5. OneReport(<<>>) BY DEF OneReport
    <2> QED BY <1>1, <2>1, <2>2, <2>3, <2>4, <2>5
  <1>3. /\ queue \in Seq(Signals) /\ Len(queue) <= 3 /\ Len(queue) \in Nat /\ OneReport(queue)
        /\ Waiting \subseteq {"error", "pulse", "readUID"}
        /\ "error" \in Waiting => ~opened
    <2>1. /\ a \o p \in Seq(Signals) /\ Len(a \o p) = Len(a) + Len(p) /\ OneReport(a \o p)
          /\ Content(a \o p) \subseteq Content(a) \cup Content(p)
      <3>1. Content(p) \cap Reports = {} BY <1>2 DEF Reports
      <3> QED BY <1>2, <3>1, MoreInQueue
    <2>2. /\ queue \in Seq(Signals) /\ Len(queue) = Len(a \o p) + 1 /\ OneReport(queue)
          /\ Waiting \subseteq Content(a \o p) \cup {"readUID"}
      <3>1. Content(<<"readUID">>) \cap Reports = {} BY <1>2 DEF Reports
      <3>2. queue = (a \o p) \o <<"readUID">> BY <1>1
      <3>3. /\ (a \o p) \o <<"readUID">> \in Seq(Signals)
            /\ Len((a \o p) \o <<"readUID">>) = Len(a \o p) + Len(<<"readUID">>)
            /\ Content((a \o p) \o <<"readUID">>) \subseteq Content(a \o p) \cup Content(<<"readUID">>)
            /\ OneReport((a \o p) \o <<"readUID">>)
        BY <1>2, <2>1, <3>1, MoreInQueue
      <3>4. Len(<<"readUID">>) = 1 /\ Content(<<"readUID">>) = {"readUID"} BY <1>2
      <3> QED BY <3>2, <3>3, <3>4, Zenon DEF Waiting
    <2>3. Len(queue) <= 3 /\ Len(queue) \in Nat
      <3> DEFINE la == Len(a)
                 lp == Len(p)
                 lq == Len(queue)
      <3>1. la \in {0, 1} /\ lp \in {0, 1} /\ lq = (la + lp) + 1 BY <1>2, <2>1, <2>2, Zenon
      <3> HIDE DEF la, lp, lq
      <3>2. lq <= 3 /\ lq \in Nat BY <3>1
      <3> QED BY <3>2 DEF lq
    <2>4. /\ Waiting \subseteq {"error", "pulse", "readUID"}
          /\ "error" \in Waiting => ~opened
      BY <1>2, <2>1, <2>2
    <2> QED BY <2>2, <2>3, <2>4
  <1>4. Waiting \cap Reports = {} BY <1>3 DEF Reports
  <1>5. TypeOK
    <2>1. Len(queue) <= QueueMax BY <1>3, NfcAssumption
    <2>2. <<>> \in Seq(Transfers) OBVIOUS
    <2> QED BY <1>3, <2>1, <2>2, NfcAssumption, RegistersAre DEF Init, TypeOK, States
  <1>6. OneOnItsWay
    <2>1. OneReport(queue) BY <1>3
    <2>2. i2c = <<>> /\ \A r \in Settings : <<>> # <<r>> BY DEF Init
    <2> QED BY <1>4, <2>1, <2>2 DEF OneOnItsWay, NoReport
  <1>7. SessionInv BY <1>3, <1>4 DEF Init, SessionInv, Quiet, NoReport
  <1>8. ErrorInv BY <1>3 DEF Init, ErrorInv, GivesUpLate
  <1>9. RetriesInv BY DEF Init, RetriesInv
  <1> QED BY <1>5, <1>6, <1>7, <1>8, <1>9 DEF Inv

-----------------------------------------------------------------------------
(* NFC_Tasks: the transfers it starts.                                     *)

LEMMA ReadUIDInv == ASSUME Inv, pc = "loop", ReadUID PROVE Inv'
  <1> DEFINE t == Tail(queue)
  <1>1. /\ queue # <<>> /\ st = "init" /\ st' = "readUID" /\ ft = 0
        /\ UNCHANGED <<opened, pc, ft, retriesLeft, transferBuf, tag, failures, missed>>
        /\ TransferAdd("UID") /\ queue' = ErrorOnInvalidTransfer(t, 1)
        /\ i2c = <<>> /\ Waiting \cap Reports = {} /\ opened \in BOOLEAN
    BY DEF ReadUID, On, Traverse, Inv, SessionInv, Quiet, NoReport, TypeOK
  <1>2. /\ t \in Seq(Signals) /\ Len(t) <= QueueMax /\ OneReport(t)
        /\ Content(t) \subseteq Waiting
    BY <1>1, Consumed, NfcAssumption
  <1>3. /\ queue' \in Seq(Signals) /\ Len(queue') <= QueueMax /\ OneReport(queue')
        /\ Waiting' \subseteq Waiting \cup {"error"}
        /\ "error" \in Waiting' => "error" \in Waiting \/ Refused
    BY <1>1, <1>2, ErrorsInQueue DEF Waiting
  <1>4. /\ i2c' \in {<<>>, <<"UID">>} /\ i2c' \in Seq(Transfers) /\ (Refused => ~opened)
    <2>1. "UID" \in Transfers BY DEF Transfers
    <2> QED BY <1>1, <2>1, Added
  <1>5. Waiting' \cap Reports = {} BY <1>1, <1>3 DEF Reports
  <1>6. TypeOK' BY <1>1, <1>3, <1>4 DEF Inv, TypeOK, States
  <1>7. OneOnItsWay'
    <2>1. "UID" \in Transfers /\ "UID" \notin Settings BY RegistersAre DEF Transfers
    <2>2. \A r \in Settings : <<r>> # <<>> /\ <<r>> # <<"UID">> BY <2>1
    <2> QED BY <1>3, <1>4, <1>5, <2>1, <2>2 DEF OneOnItsWay, NoReport
  <1>8. SessionInv' BY <1>1, <1>3, <1>4 DEF Inv, SessionInv
  <1>9. ErrorInv' BY <1>1, <1>3, <1>4, <1>5 DEF Inv, ErrorInv, GivesUpLate, Reports
  <1>10. RetriesInv' BY <1>1 DEF Inv, RetriesInv
  <1> QED BY <1>6, <1>7, <1>8, <1>9, <1>10 DEF Inv

(* A report of the preparation finds it in the step it is about.           *)
LEMMA ReportOfStep ==
    ASSUME Inv, pc = "loop", PreparesOn
    PROVE  /\ queue # <<>> /\ Head(queue) \in Reports /\ Head(queue) \in Waiting
           /\ i2c = <<>> /\ Content(Tail(queue)) \cap Reports = {}
           /\ "ready" \notin Waiting
           /\ \/ st = "readUID" /\ ft = 0 /\ Head(queue) = "success"
              \/ st = "prepare" /\ Sending /\ (Head(queue) = "success" \/ Head(queue) = "fail")
  <1>1. queue # <<>> /\ Head(queue) \in Reports BY DEF PreparesOn, On, Reports
  <1>2. /\ Head(queue) \in Waiting /\ i2c = <<>> /\ Content(Tail(queue)) \cap Reports = {}
    BY <1>1, Consumed
  <1>3. ~NoReport BY <1>1, <1>2 DEF NoReport
  <1>4. CASE st = "readUID"
    <2>1. ft = 0 /\ Head(queue) = "success" BY <1>4 DEF Inv, SessionInv, PreparesOn, On
    <2>2. "ready" \notin Waiting BY <2>1, RegistersAre DEF Inv, SessionInv
    <2> QED BY <1>1, <1>2, <1>4, <2>1, <2>2
  <1>5. CASE st = "prepare"
    <2>1. Sending BY <1>3, <1>5 DEF Inv, SessionInv, Prepared, Quiet
    <2>2. "ready" \notin Waiting BY <2>1, RegistersAre DEF Inv, SessionInv, Sending
    <2>3. Head(queue) = "success" \/ Head(queue) = "fail" BY DEF PreparesOn, On
    <2> QED BY <1>1, <1>2, <1>5, <2>1, <2>2, <2>3
  <1> QED BY <1>4, <1>5 DEF PreparesOn, On

LEMMA SendRegisterInv == ASSUME Inv, pc = "loop", SendRegister PROVE Inv'
  <1> DEFINE t == Tail(queue)
             r == Registers[ft']
  <1>1. /\ PreparesOn /\ ft' = NextStep /\ ft' \in 1 .. 4 /\ transferBuf' = r
        /\ TransferAdd(r) /\ pc' = "verify"
        /\ UNCHANGED <<opened, st, retriesLeft, tag, failures, missed>>
        /\ queue' = ErrorOnInvalidTransfer(t, IF r = "MB_MODE" THEN 2 ELSE 1)
    BY RegistersAre DEF SendRegister
  <1>2. /\ queue # <<>> /\ i2c = <<>> /\ Content(t) \cap Reports = {} /\ "ready" \notin Waiting
        /\ Head(queue) \in Waiting /\ opened \in BOOLEAN
        /\ \/ st = "readUID" /\ ft = 0 /\ Head(queue) = "success"
           \/ st = "prepare" /\ Sending /\ (Head(queue) = "success" \/ Head(queue) = "fail")
    BY <1>1, ReportOfStep DEF Inv, TypeOK
  <1>3. /\ t \in Seq(Signals) /\ Len(t) <= QueueMax /\ OneReport(t) /\ Content(t) \subseteq Waiting
    BY <1>2, Consumed, NfcAssumption
  <1>4. r \in Settings /\ r \in Transfers /\ r = Registers[ft]' BY <1>1, RegistersAre DEF Registers
  <1> HIDE DEF t, r
  <1>5. /\ queue' \in Seq(Signals) /\ Len(queue') <= QueueMax /\ OneReport(queue')
        /\ Waiting' \subseteq Content(t) \cup {"error"}
        /\ "error" \in Waiting' => "error" \in Content(t) \/ Refused
    BY <1>1, <1>3, ErrorsInQueue DEF Waiting
  <1>6. /\ Waiting' \cap Reports = {}
        /\ Waiting' \subseteq Waiting \cup {"error"}
        /\ "error" \in Waiting' => "error" \in Waiting \/ Refused
    BY <1>2, <1>3, <1>5 DEF Reports
  <1>7. /\ i2c' \in {<<>>, <<r>>} /\ i2c' \in Seq(Transfers) /\ (Refused => ~opened)
    BY <1>1, <1>2, <1>4, Added
  <1>8. TypeOK'
    <2>1. ft' \in 0 .. FTModeEnabled BY <1>1, RegistersAre
    <2> QED BY <1>1, <1>4, <1>5, <1>7, <2>1 DEF Inv, TypeOK
  <1>9. OneOnItsWay'
    <2>1. \A x \in Settings : i2c' = <<x>> => x = r BY <1>7
    <2> QED BY <1>1, <1>4, <1>5, <1>6, <1>7, <2>1 DEF OneOnItsWay, NoReport
  <1>10. Sending'
    <2>1. \A j \in 1 .. ft' - 1 : Registers[j] \in tag
      <3>1. CASE st = "readUID" /\ ft = 0 /\ Head(queue) = "success"
        <4>1. ft' = 1 BY <1>1, <3>1 DEF NextStep
        <4> QED BY <4>1
      <3>2. CASE st = "prepare" /\ Sending /\ Head(queue) = "success"
        <4>1. /\ ft' = ft + 1 /\ ft \in 1 .. 4 /\ Registers[ft] \in tag
              /\ \A j \in 1 .. ft - 1 : Registers[j] \in tag
          BY <1>1, <1>2, <3>2, RegistersAre DEF NextStep, Sending
        <4>2. \A j \in 1 .. ft' - 1 : j = ft \/ j \in 1 .. ft - 1 BY <4>1
        <4> QED BY <4>1, <4>2
      <3>3. CASE st = "prepare" /\ Sending /\ Head(queue) = "fail"
        <4>1. ft' = ft BY <1>1, <3>3 DEF NextStep
        <4> QED BY <3>3, <4>1 DEF Sending
      <3> QED BY <1>2, <3>1, <3>2, <3>3
    <2>2. "success" \notin Waiting' BY <1>6 DEF Reports
    <2> QED BY <1>1, <1>4, <1>7, <2>1, <2>2, RegistersAre DEF Sending
  <1>11. SessionInv'
    <2>1. "ready" \notin Waiting' BY <1>2, <1>6
    <2>2. st \in {"readUID", "prepare"} BY <1>2
    <2> QED BY <1>1, <1>10, <2>1, <2>2 DEF SessionInv
  <1>12. ErrorInv'
    BY <1>1, <1>2, <1>6, <1>7 DEF Inv, ErrorInv, GivesUpLate, Reports
  <1>13. RetriesInv'
    <2>1. Failed' = 0 BY <1>6 DEF Failed, Reports
    <2>2. /\ ft \in 0 .. 5 /\ retriesLeft \in 0 .. ByteMod - 1 /\ failures \in 0 .. RetriesMax
          /\ RetriesMax \in Nat /\ ByteMod \in Nat
      BY Types DEF Inv
    <2>3. failures + retriesLeft + ft' >= RetriesMax + 1
      <3>1. CASE st = "readUID" /\ ft = 0 /\ Head(queue) = "success"
        <4>1. ft' = 1 /\ retriesLeft = RetriesMax BY <1>1, <3>1 DEF NextStep, Inv, RetriesInv
        <4> QED BY <2>2, <4>1
      <3>2. CASE st = "prepare" /\ Head(queue) = "success"
        <4>1. ft' = ft + 1 BY <1>1, <3>2 DEF NextStep
        <4>2. failures + retriesLeft + ft >= RetriesMax + Failed /\ Failed \in 0 .. 1
          BY <3>2 DEF Inv, RetriesInv, Failed
        <4> QED BY <2>2, <4>1, <4>2
      <3>3. CASE st = "prepare" /\ Head(queue) = "fail"
        <4>1. ft' = ft /\ Failed = 1 BY <1>1, <1>2, <3>3 DEF NextStep, Failed
        <4>2. failures + retriesLeft + ft >= RetriesMax + Failed
          BY <3>3 DEF Inv, RetriesInv
        <4> QED BY <2>2, <4>1, <4>2
      <3> QED BY <1>2, <3>1, <3>2, <3>3
    <2>4. st \in {"init", "readUID"} => retriesLeft = RetriesMax BY DEF Inv, RetriesInv
    <2> QED BY <1>1, <2>1, <2>2, <2>3, <2>4 DEF RetriesInv
  <1> QED BY <1>8, <1>9, <1>11, <1>12, <1>13 DEF Inv

LEMMA VerifyRetriesInv == ASSUME Inv, VerifyRetries PROVE Inv'
  <1>1. /\ pc = "verify" /\ pc' = "loop" /\ st \in {"readUID", "prepare"} /\ st' = "prepare"
        /\ Sending /\ UNCHANGED <<opened, ft, transferBuf, i2c, tag, failures>>
    BY DEF VerifyRetries, Traverse, Inv, SessionInv
  <1>2. /\ ft \in 1 .. 4 /\ retriesLeft \in 0 .. ByteMod - 1 /\ failures \in 0 .. RetriesMax
        /\ RetriesMax \in Nat /\ ByteMod \in Nat /\ RetriesMax > 0 /\ RetriesMax < ByteMod
        /\ OneReport(queue) /\ queue \in Seq(Signals) /\ Len(queue) <= QueueMax
    BY <1>1, Types, RegistersAre DEF Inv, Sending, OneOnItsWay
  <1>3. OneRetryLess = IF retriesLeft = 0 THEN ByteMod - 1 ELSE retriesLeft - 1
    BY <1>2, RetryTaken DEF OneRetryLess
  <1>4. NoRetriesLeft(OneRetryLess) => retriesLeft = 1
    BY <1>2, <1>3 DEF NoRetriesLeft
  <1>5. OneRetryLess \in 0 .. ByteMod - 1 BY <1>2, <1>3
  <1>6. /\ retriesLeft' \in 0 .. ByteMod - 1
        /\ retriesLeft' = OneRetryLess \/ retriesLeft' = RetriesMax
    <2>1. Traverse("prepare", OneRetryLess) BY DEF VerifyRetries
    <2> QED BY <1>5, <2>1, LeavingPrepare DEF Inv
  <1>7. /\ queue' \in Seq(Signals) /\ Len(queue') <= QueueMax /\ OneReport(queue')
        /\ Waiting' \subseteq Waiting \cup {"maxRetries"}
        /\ "maxRetries" \in Waiting' => "maxRetries" \in Waiting \/ retriesLeft = 1
        /\ missed \subseteq missed' /\ missed' \subseteq missed \cup {"lost"}
    <2>1. CASE NoRetriesLeft(OneRetryLess)
      <3>1. /\ queue' = Dispatched(queue, <<"maxRetries">>)
            /\ missed \subseteq missed' /\ missed' \subseteq missed \cup {"lost"}
        BY <2>1 DEF VerifyRetries, Dispatch
      <3>2. "maxRetries" \in Signals /\ "maxRetries" \notin Reports BY DEF Signals, Reports
      <3> QED BY <1>2, <1>4, <2>1, <3>1, <3>2, OneMore DEF Waiting
    <2>2. CASE ~NoRetriesLeft(OneRetryLess)
      <3>1. queue' = queue /\ missed' = missed BY <2>2 DEF VerifyRetries
      <3> QED BY <1>2, <3>1 DEF Waiting
    <2> QED BY <2>1, <2>2
  <1>8. TypeOK' BY <1>1, <1>6, <1>7 DEF Inv, TypeOK, States
  <1>9. OneOnItsWay'
    <2>1. i2c # <<>> => Waiting' \cap Reports = {}
      BY <1>7 DEF Inv, OneOnItsWay, NoReport, Reports
    <2> QED BY <1>1, <1>7, <2>1 DEF Inv, OneOnItsWay, NoReport
  <1>10. Sending' BY <1>1, <1>7 DEF Sending
  <1>11. SessionInv'
    <2>1. "ready" \in Waiting' => ft' = FTModeEnabled BY <1>1, <1>7 DEF Inv, SessionInv
    <2> QED BY <1>1, <1>10, <2>1 DEF SessionInv
  <1>12. ErrorInv'
    <2>1. retriesLeft = 1 => failures >= RetriesMax - Len(Registers)
      <3>1. retriesLeft > 0 => failures + retriesLeft + ft >= RetriesMax + 1 + Failed
        BY <1>1 DEF Inv, RetriesInv
      <3>2. Failed \in 0 .. 1 BY DEF Failed
      <3> QED BY <1>2, <3>1, <3>2, RegistersAre
    <2>2. "error" \in Waiting' => "error" \in Waiting BY <1>7
    <2> QED BY <1>1, <1>7, <2>1, <2>2 DEF Inv, ErrorInv, GivesUpLate
  <1>13. RetriesInv'
    <2>1. PICK f \in 0 .. 1, g \in 0 .. 1 : f = Failed /\ g = Failed' /\ g <= f
      BY <1>7 DEF Failed
    <2>2. retriesLeft > 0 => failures + retriesLeft + ft >= RetriesMax + 1 + f
      BY <1>1, <2>1 DEF Inv, RetriesInv
    <2>3. failures + retriesLeft' + ft >= RetriesMax + g
      <3>1. CASE retriesLeft' = RetriesMax BY <1>2, <3>1
      <3>2. CASE retriesLeft' = OneRetryLess /\ retriesLeft = 0
        <4>1. retriesLeft' = ByteMod - 1 BY <1>3, <3>2
        <4> QED BY <1>2, <4>1
      <3>3. CASE retriesLeft' = OneRetryLess /\ retriesLeft # 0
        <4>1. retriesLeft' = retriesLeft - 1 /\ retriesLeft > 0 BY <1>2, <1>3, <3>3
        <4>2. g <= f BY <2>1
        <4> QED BY <1>2, <2>2, <4>1, <4>2
      <3> QED BY <1>6, <3>1, <3>2, <3>3
    <2> QED BY <1>1, <2>1, <2>3 DEF RetriesInv
  <1> QED BY <1>8, <1>9, <1>11, <1>12, <1>13 DEF Inv

LEMMA NothingToSendInv == ASSUME Inv, pc = "loop", NothingToSend PROVE Inv'
  <1> DEFINE t == Tail(queue)
  <1>1. /\ PreparesOn /\ ft' = NextStep /\ ft' \notin 1 .. 4
        /\ Traverse("prepare", retriesLeft)
        /\ UNCHANGED <<opened, pc, transferBuf, i2c, tag, failures, missed>>
    BY RegistersAre DEF NothingToSend
  <1>2. /\ queue # <<>> /\ i2c = <<>> /\ Content(t) \cap Reports = {}
        /\ Head(queue) \in Waiting
        /\ \/ st = "readUID" /\ ft = 0 /\ Head(queue) = "success"
           \/ st = "prepare" /\ Sending /\ (Head(queue) = "success" \/ Head(queue) = "fail")
    BY <1>1, ReportOfStep
  <1>3. /\ t \in Seq(Signals) /\ Len(t) + 1 <= QueueMax /\ Len(t) <= QueueMax
        /\ OneReport(t) /\ Content(t) \subseteq Waiting
    BY <1>2, Consumed, NfcAssumption
  <1>4. st = "prepare" /\ Sending /\ Head(queue) = "success" /\ ft = 4 /\ ft' = 5
    <2>1. ft' = IF Head(queue) = "success" THEN ft + 1 ELSE ft BY <1>1 DEF NextStep
    <2>2. Sending => ft \in 1 .. 4 BY RegistersAre DEF Sending
    <2> QED BY <1>1, <1>2, <2>1, <2>2
  <1>5. tag = Settings
    <2>1. Registers[1] \in tag /\ Registers[2] \in tag /\ Registers[3] \in tag /\ Registers[4] \in tag
      <3>1. "success" \in Waiting BY <1>2, <1>4
      <3>2. 1 \in 1 .. ft - 1 /\ 2 \in 1 .. ft - 1 /\ 3 \in 1 .. ft - 1 BY <1>4
      <3> QED BY <1>4, <3>1, <3>2 DEF Sending
    <2>2. tag \subseteq Settings BY Types DEF Inv
    <2>3. Settings = {Registers[1], Registers[2], Registers[3], Registers[4]} BY RegistersAre
    <2>4. Settings \subseteq tag BY <2>1, <2>3, Zenon
    <2> QED BY <2>2, <2>4, Zenon
  <1>6. /\ queue' \in Seq(Signals) /\ Len(queue') <= QueueMax /\ OneReport(queue')
        /\ Waiting' \subseteq Content(t) \cup {"ready"}
    <2>1. queue' = Append(t, "ready") BY <1>4, RegistersAre DEF NothingToSend
    <2>2. "ready" \in Signals BY DEF Signals
    <2> HIDE DEF t
    <2>3. /\ queue' = t \o <<"ready">> /\ queue' \in Seq(Signals) /\ OneReport(queue')
          /\ Len(queue') = Len(t) + 1 /\ Waiting' \subseteq Content(t) \cup {"ready"}
      <3>1. "ready" \notin Reports BY DEF Reports
      <3>2. /\ Append(t, "ready") = t \o <<"ready">>
            /\ t \o <<"ready">> \in Seq(Signals) /\ OneReport(t \o <<"ready">>)
            /\ Len(t \o <<"ready">>) = Len(t) + 1
            /\ Content(t \o <<"ready">>) \subseteq Content(t) \cup {"ready"}
        BY <1>2, <1>3, <2>2, <3>1, OneMore
      <3> QED BY <2>1, <3>2, Zenon DEF Waiting
    <2> QED BY <1>3, <2>3
  <1>7. Waiting' \cap Reports = {} /\ Waiting' \subseteq Waiting \cup {"ready"}
    BY <1>2, <1>3, <1>6 DEF Reports
  <1>8. /\ st' = "prepare" /\ retriesLeft' \in 0 .. ByteMod - 1
        /\ retriesLeft' = retriesLeft \/ retriesLeft' = RetriesMax
    BY <1>1, Types, LeavingPrepare DEF Inv
  <1>9. TypeOK' BY <1>1, <1>4, <1>6, <1>8, RegistersAre DEF Inv, TypeOK, States
  <1>10. OneOnItsWay' BY <1>1, <1>6, <1>7 DEF Inv, OneOnItsWay, NoReport
  <1>11. SessionInv'
    <2>1. Prepared' BY <1>1, <1>2, <1>4, <1>5, <1>7, RegistersAre DEF Prepared, Quiet, NoReport
    <2> QED BY <1>1, <1>8, <2>1 DEF SessionInv, Prepared
  <1>12. ErrorInv'
    BY <1>1, <1>7, <1>8 DEF Inv, ErrorInv, GivesUpLate, Reports
  <1>13. RetriesInv'
    <2>1. Failed' = 0 BY <1>7 DEF Failed, Reports
    <2>2. /\ retriesLeft \in 0 .. ByteMod - 1 /\ failures \in 0 .. RetriesMax
          /\ RetriesMax \in Nat /\ ByteMod \in Nat
      BY Types DEF Inv
    <2>3. failures + retriesLeft + ft >= RetriesMax
      BY <1>4, <2>2 DEF Inv, RetriesInv, Failed
    <2>4. failures + retriesLeft' + ft' >= RetriesMax
      <3>1. ft = 4 /\ ft' = 5 BY <1>4
      <3>2. CASE retriesLeft' = retriesLeft BY <2>2, <2>3, <3>1, <3>2
      <3>3. CASE retriesLeft' = RetriesMax BY <2>2, <3>1, <3>3
      <3> QED BY <1>8, <3>2, <3>3
    <2>5. failures + retriesLeft' + ft' >= RetriesMax + 0
      <3>1. RetriesMax + 0 = RetriesMax BY <2>2
      <3> QED BY <2>4, <3>1
    <2> QED BY <1>1, <1>8, <2>1, <2>5 DEF RetriesInv
  <1> QED BY <1>9, <1>10, <1>11, <1>12, <1>13 DEF Inv

-----------------------------------------------------------------------------
(* NFC_Tasks: the other handlers.                                          *)

LEMMA IdleInv == ASSUME Inv, pc = "loop", Idle PROVE Inv'
  <1>1. /\ queue # <<>> /\ Head(queue) = "ready" /\ st = "prepare" /\ queue' = Tail(queue)
        /\ Traverse("idle", retriesLeft)
        /\ UNCHANGED <<opened, pc, ft, transferBuf, i2c, tag, failures, missed>>
    BY DEF Idle, On
  <1>2. /\ queue' \in Seq(Signals) /\ Len(queue') <= QueueMax /\ OneReport(queue')
        /\ Waiting' \subseteq Waiting /\ "ready" \in Waiting
    BY <1>1, Consumed, NfcAssumption DEF Waiting
  <1>3. Quiet /\ tag = Settings
    <2>1. ft = 5 BY <1>2, RegistersAre DEF Inv, SessionInv
    <2>2. ~Sending BY <2>1, RegistersAre DEF Sending
    <2> QED BY <1>1, <2>2 DEF Inv, SessionInv, Prepared
  <1>4. st' = "idle" /\ retriesLeft' \in 0 .. ByteMod - 1
    BY <1>1, Types, LeavingPrepare DEF Inv
  <1>5. TypeOK' BY <1>1, <1>2, <1>4 DEF Inv, TypeOK, States
  <1>6. OneOnItsWay' BY <1>1, <1>2, <1>3 DEF Inv, OneOnItsWay, NoReport, Quiet
  <1>7. SessionInv' BY <1>1, <1>2, <1>3, <1>4 DEF Inv, SessionInv, Quiet, NoReport
  <1>8. ErrorInv' BY <1>1, <1>2, <1>4 DEF Inv, ErrorInv, GivesUpLate
  <1>9. RetriesInv' BY <1>1, <1>4 DEF RetriesInv
  <1> QED BY <1>5, <1>6, <1>7, <1>8, <1>9 DEF Inv

LEMMA ReadInterruptStatusInv == ASSUME Inv, pc = "loop", ReadInterruptStatus PROVE Inv'
  <1> DEFINE t == Tail(queue)
  <1>1. /\ queue # <<>> /\ st = "idle" /\ st' = "readStatus" /\ retriesLeft' = retriesLeft
        /\ UNCHANGED <<opened, pc, ft, transferBuf, tag, failures, missed>>
        /\ TransferAdd("ITSTS_DYN") /\ queue' = ErrorOnInvalidTransfer(t, 1)
        /\ i2c = <<>> /\ Waiting \cap Reports = {} /\ tag = Settings /\ opened \in BOOLEAN
    BY DEF ReadInterruptStatus, ReadsStatus, On, Traverse, Inv, SessionInv, Quiet, NoReport, TypeOK
  <1>2. /\ t \in Seq(Signals) /\ Len(t) <= QueueMax /\ OneReport(t)
        /\ Content(t) \subseteq Waiting
    BY <1>1, Consumed, NfcAssumption
  <1>3. /\ queue' \in Seq(Signals) /\ Len(queue') <= QueueMax /\ OneReport(queue')
        /\ Waiting' \subseteq Waiting \cup {"error"}
        /\ "error" \in Waiting' => "error" \in Waiting \/ Refused
    BY <1>1, <1>2, ErrorsInQueue DEF Waiting
  <1>4. /\ i2c' \in {<<>>, <<"ITSTS_DYN">>} /\ i2c' \in Seq(Transfers) /\ (Refused => ~opened)
    <2>1. "ITSTS_DYN" \in Transfers BY DEF Transfers
    <2> QED BY <1>1, <2>1, Added
  <1>5. Waiting' \cap Reports = {} BY <1>1, <1>3 DEF Reports
  <1>6. TypeOK' BY <1>1, <1>3, <1>4 DEF Inv, TypeOK, States
  <1>7. OneOnItsWay'
    <2>1. "ITSTS_DYN" \in Transfers /\ "ITSTS_DYN" \notin Settings BY RegistersAre DEF Transfers
    <2>2. \A r \in Settings : <<r>> # <<>> /\ <<r>> # <<"ITSTS_DYN">> BY <2>1
    <2> QED BY <1>3, <1>4, <1>5, <2>1, <2>2 DEF OneOnItsWay, NoReport
  <1>8. SessionInv'
    <2>1. pc' # "verify" BY <1>1 DEF Inv, SessionInv
    <2>2. "ready" \in Waiting' => ft' = FTModeEnabled BY <1>1, <1>3 DEF Inv, SessionInv
    <2> QED BY <1>1, <1>4, <2>1, <2>2 DEF SessionInv
  <1>9. ErrorInv' BY <1>1, <1>3, <1>4, <1>5 DEF Inv, ErrorInv, GivesUpLate, Reports
  <1>10. RetriesInv' BY <1>1 DEF RetriesInv
  <1> QED BY <1>6, <1>7, <1>8, <1>9, <1>10 DEF Inv

LEMMA HandleInterruptStatusInv == ASSUME Inv, pc = "loop", HandleInterruptStatus PROVE Inv'
  <1> DEFINE t == Tail(queue)
  <1>1. /\ queue # <<>> /\ Head(queue) \in Reports /\ st = "readStatus" /\ st' = "idle"
        /\ retriesLeft' = retriesLeft /\ tag = Settings
        /\ queue' = t \/ queue' = Append(t, "readMailbox")
        /\ UNCHANGED <<opened, pc, ft, transferBuf, i2c, tag, failures, missed>>
    BY DEF HandleInterruptStatus, On, Traverse, Reports, Inv, SessionInv
  <1>2. /\ t \in Seq(Signals) /\ Len(t) <= QueueMax /\ Len(t) + 1 <= QueueMax
        /\ OneReport(t) /\ Content(t) \subseteq Waiting
        /\ i2c = <<>> /\ Content(t) \cap Reports = {}
    BY <1>1, Consumed, NfcAssumption
  <1>3. /\ queue' \in Seq(Signals) /\ Len(queue') <= QueueMax /\ OneReport(queue')
        /\ Waiting' \subseteq Content(t) \cup {"readMailbox"}
    <2>1. "readMailbox" \in Signals BY DEF Signals
    <2> HIDE DEF t
    <2>2. CASE queue' = t BY <1>2, <2>2 DEF Waiting
    <2>3. CASE queue' = Append(t, "readMailbox")
      <3>1. /\ queue' = t \o <<"readMailbox">> /\ queue' \in Seq(Signals) /\ OneReport(queue')
            /\ Len(queue') = Len(t) + 1 /\ Waiting' \subseteq Content(t) \cup {"readMailbox"}
        <4>1. "readMailbox" \notin Reports BY DEF Reports
        <4>2. /\ Append(t, "readMailbox") = t \o <<"readMailbox">>
              /\ t \o <<"readMailbox">> \in Seq(Signals) /\ OneReport(t \o <<"readMailbox">>)
              /\ Len(t \o <<"readMailbox">>) = Len(t) + 1
              /\ Content(t \o <<"readMailbox">>) \subseteq Content(t) \cup {"readMailbox"}
          BY <1>2, <2>1, <4>1, OneMore
        <4> QED BY <2>3, <4>2, Zenon DEF Waiting
      <3> QED BY <1>2, <3>1
    <2> QED BY <1>1, <2>2, <2>3
  <1>4. Waiting' \cap Reports = {} /\ Waiting' \subseteq Waiting \cup {"readMailbox"}
    BY <1>2, <1>3 DEF Reports
  <1>5. TypeOK' BY <1>1, <1>3 DEF Inv, TypeOK, States
  <1>6. OneOnItsWay' BY <1>1, <1>3, <1>4 DEF Inv, OneOnItsWay, NoReport
  <1>7. SessionInv'
    <2>1. pc' # "verify" BY <1>1 DEF Inv, SessionInv
    <2>2. "ready" \in Waiting' => ft' = FTModeEnabled BY <1>1, <1>4 DEF Inv, SessionInv
    <2> QED BY <1>1, <1>2, <1>4, <2>1, <2>2 DEF SessionInv, Quiet, NoReport
  <1>8. ErrorInv' BY <1>1, <1>4 DEF Inv, ErrorInv, GivesUpLate
  <1>9. RetriesInv'
    <2>1. pc' # "verify" BY <1>1 DEF Inv, SessionInv
    <2> QED BY <1>1, <2>1 DEF RetriesInv
  <1> QED BY <1>5, <1>6, <1>7, <1>8, <1>9 DEF Inv

LEMMA ErrorActionInv == ASSUME Inv, pc = "loop", Error PROVE Inv'
  <1>1. /\ queue # <<>> /\ queue' = Tail(queue) /\ Traverse("error", retriesLeft)
        /\ UNCHANGED <<opened, pc, ft, transferBuf, i2c, tag, failures, missed>>
        /\ \/ Head(queue) = "error" \/ (st = "readUID" /\ Head(queue) = "fail")
           \/ Head(queue) = "maxRetries"
    BY DEF Error, GoesToError, On
  <1>2. /\ queue' \in Seq(Signals) /\ Len(queue') <= QueueMax /\ OneReport(queue')
        /\ Waiting' \subseteq Waiting /\ Head(queue) \in Waiting
    BY <1>1, Consumed, NfcAssumption DEF Waiting
  <1>3. st' = "error" /\ retriesLeft' \in 0 .. ByteMod - 1
    BY <1>1, Types, LeavingPrepare DEF Inv
  <1>4. TypeOK' BY <1>1, <1>2, <1>3 DEF Inv, TypeOK, States
  <1>5. OneOnItsWay'
    <2>1. i2c # <<>> => Waiting' \cap Reports = {} BY <1>2 DEF Inv, OneOnItsWay, NoReport
    <2> QED BY <1>1, <1>2, <2>1 DEF Inv, OneOnItsWay, NoReport
  <1>6. SessionInv' BY <1>1, <1>2, <1>3 DEF Inv, SessionInv
  <1>7. ErrorInv' BY <1>1, <1>2, <1>3 DEF Inv, ErrorInv, GivesUpLate
  <1>8. RetriesInv' BY <1>1, <1>3 DEF RetriesInv
  <1> QED BY <1>4, <1>5, <1>6, <1>7, <1>8 DEF Inv

(* Taking or adding an event that nothing is about.                        *)
LEMMA SameButForOthers ==
    ASSUME Inv, queue' \in Seq(Signals), Len(queue') <= QueueMax, OneReport(queue'),
           Waiting' \subseteq Waiting \cup {"pulse"},
           UNCHANGED <<opened, st, pc, ft, retriesLeft, transferBuf, i2c, tag, failures, missed>>
    PROVE  Inv'
  <1>1. TypeOK' BY DEF Inv, TypeOK
  <1>2. OneOnItsWay'
    <2>1. i2c # <<>> => Waiting' \cap Reports = {} BY DEF Inv, OneOnItsWay, NoReport, Reports
    <2> QED BY <2>1 DEF Inv, OneOnItsWay, NoReport
  <1>3. SessionInv'
    <2>1. Sending => Sending' BY DEF Sending
    <2>2. Quiet => Quiet' BY DEF Quiet, NoReport, Reports
    <2>3. Prepared => Prepared' BY <2>2 DEF Prepared
    <2> QED BY <2>1, <2>2, <2>3 DEF Inv, SessionInv
  <1>4. ErrorInv' BY DEF Inv, ErrorInv, GivesUpLate
  <1>5. RetriesInv'
    <2>1. PICK f \in 0 .. 1, g \in 0 .. 1 : f = Failed /\ g = Failed' /\ g <= f
      BY DEF Failed
    <2>2. /\ retriesLeft \in 0 .. ByteMod - 1 /\ failures \in 0 .. RetriesMax
          /\ RetriesMax \in Nat /\ ByteMod \in Nat /\ ft \in 0 .. 5
      BY Types DEF Inv
    <2>3. /\ pc = "loop" /\ st = "prepare" => failures + retriesLeft + ft >= RetriesMax + f
          /\ pc = "verify" =>
                 /\ failures + retriesLeft + ft >= RetriesMax
                 /\ retriesLeft > 0 => failures + retriesLeft + ft >= RetriesMax + 1 + f
          /\ st \in {"init", "readUID"} => retriesLeft = RetriesMax
      BY <2>1 DEF Inv, RetriesInv
    <2>4. \A n \in Int : /\ n >= RetriesMax + f => n >= RetriesMax + g
                         /\ n >= RetriesMax + 1 + f => n >= RetriesMax + 1 + g
      <3>1. g <= f /\ RetriesMax \in Nat BY <2>1, <2>2
      <3> QED BY <3>1
    <2>5. failures + retriesLeft + ft \in Int BY <2>2
    <2>6. /\ pc = "loop" /\ st = "prepare" => failures + retriesLeft + ft >= RetriesMax + g
          /\ pc = "verify" =>
                 /\ failures + retriesLeft + ft >= RetriesMax
                 /\ retriesLeft > 0 => failures + retriesLeft + ft >= RetriesMax + 1 + g
      BY <2>3, <2>4, <2>5
    <2> QED BY <2>1, <2>3, <2>6 DEF RetriesInv
  <1> QED BY <1>1, <1>2, <1>3, <1>4, <1>5 DEF Inv

LEMMA DropInv == ASSUME Inv, Drop PROVE Inv'
  <1>1. queue # <<>> /\ queue' = Tail(queue) BY DEF Drop
  <1>2. /\ queue' \in Seq(Signals) /\ Len(queue') <= QueueMax /\ OneReport(queue')
        /\ Waiting' \subseteq Waiting
    BY <1>1, Consumed, NfcAssumption DEF Waiting
  <1> QED BY <1>2, SameButForOthers DEF Drop

-----------------------------------------------------------------------------
(* The interrupts.                                                         *)

LEMMA GPOPulseInv == ASSUME Inv, GPOPulse PROVE Inv'
  <1>1. queue \in Seq(Signals) /\ Len(queue) <= QueueMax /\ OneReport(queue)
    BY Types DEF Inv, OneOnItsWay
  <1>2. "pulse" \in Signals /\ "pulse" \notin Reports BY DEF Signals, Reports
  <1>3. /\ queue' \in Seq(Signals) /\ Len(queue') <= QueueMax /\ OneReport(queue')
        /\ Waiting' \subseteq Waiting \cup {"pulse"}
    BY <1>1, <1>2, OneMore DEF GPOPulse, Waiting
  <1> QED BY <1>3, SameButForOthers DEF GPOPulse

(* Both ends of a transfer: what a success was about is in the tag.        *)
LEMMA TransferEventInv ==
    ASSUME Inv, NEW sig \in Reports, TransferEvent(sig), tag \subseteq tag', tag' \subseteq Settings,
           sig = "success" /\ Head(i2c) \in Settings => Head(i2c) \in tag'
    PROVE  Inv'
  <1>1. /\ i2c # <<>> /\ i2c' = Tail(i2c) /\ queue' = Dispatched(queue, <<sig>>)
        /\ UNCHANGED <<opened, st, pc, ft, retriesLeft, transferBuf>>
        /\ failures' = IF sig = "fail" /\ Head(i2c) \in Settings /\ failures < RetriesMax
                       THEN failures + 1 ELSE failures
    BY DEF TransferEvent, Dispatch
  <1>2. PICK r \in Transfers : i2c = <<r>> BY <1>1 DEF Inv, OneOnItsWay
  <1>3. i2c' = <<>> /\ Head(i2c) = r BY <1>1, <1>2
  <1>4. /\ missed \subseteq missed' /\ missed' \subseteq {"lost", "UID", "ITSTS_DYN"}
        /\ sig = "fail" /\ r = "UID" => "UID" \in missed'
    <2>1. missed \subseteq {"lost", "UID", "ITSTS_DYN"} BY DEF Inv, TypeOK
    <2>2. missed' = missed \cup (IF sig = "fail" THEN {r} \ Settings ELSE {})
                           \cup (IF Len(queue) = QueueMax THEN {"lost"} ELSE {})
      BY <1>3 DEF TransferEvent, Dispatch
    <2>3. {r} \ Settings \subseteq {"UID", "ITSTS_DYN"} /\ "UID" \notin Settings
      BY RegistersAre DEF Transfers
    <2> QED BY <2>1, <2>2, <2>3
  <1>5. /\ queue' \in Seq(Signals) /\ Len(queue') <= QueueMax /\ OneReport(queue')
        /\ Waiting' \subseteq Waiting \cup {sig} /\ Waiting \cap Reports = {}
    <2>1. queue \in Seq(Signals) /\ Len(queue) <= QueueMax BY Types DEF Inv
    <2>2. OneReport(queue) /\ Content(queue) \cap Reports = {}
      BY <1>1 DEF Inv, OneOnItsWay, NoReport, Waiting
    <2>3. sig \in Signals BY DEF Reports, Signals
    <2> QED BY <1>1, <2>1, <2>2, <2>3, OneMore DEF Waiting
  <1>6. /\ ft \in 0 .. 5 /\ retriesLeft \in 0 .. ByteMod - 1 /\ failures \in 0 .. RetriesMax
        /\ RetriesMax \in Nat /\ ByteMod \in Nat
    BY Types DEF Inv
  <1>7. failures' \in 0 .. RetriesMax /\ failures' >= failures BY <1>1, <1>6
  <1>8. TypeOK'
    <2>1. <<>> \in Seq(Transfers) OBVIOUS
    <2> QED BY <1>1, <1>3, <1>4, <1>5, <1>7, <2>1 DEF Inv, TypeOK
  <1>9. OneOnItsWay' BY <1>3, <1>5 DEF OneOnItsWay
  <1>10. Sending => Sending' /\ r = Registers[ft] /\ r \in Settings /\ ft \in 1 .. 4
    <2> SUFFICES ASSUME Sending
                 PROVE  Sending' /\ r = Registers[ft] /\ r \in Settings /\ ft \in 1 .. 4
      OBVIOUS
    <2>1. ft \in 1 .. 4 BY RegistersAre DEF Sending
    <2>2. i2c = <<Registers[ft]>> BY <1>1 DEF Sending
    <2>3. r = Registers[ft] /\ r \in Settings BY <1>2, <2>1, <2>2, RegistersAre
    <2>4. "success" \in Waiting' => Registers[ft] \in tag'
      BY <1>3, <1>5, <2>3 DEF Reports
    <2> QED BY <1>1, <1>3, <2>1, <2>3, <2>4 DEF Sending
  <1>11. SessionInv'
    <2>1. ~Quiet /\ ~Prepared BY <1>1 DEF Quiet, Prepared
    <2>2. "ready" \in Waiting' => ft' = FTModeEnabled
      BY <1>1, <1>5 DEF Inv, SessionInv, Reports
    <2>3. tag = Settings => tag' = Settings OBVIOUS
    <2> QED BY <1>1, <1>3, <1>10, <2>1, <2>2, <2>3 DEF Inv, SessionInv
  <1>12. ErrorInv'
    <2>1. /\ "error" \in Waiting' => "error" \in Waiting
          /\ "maxRetries" \in Waiting' => "maxRetries" \in Waiting
          /\ "fail" \in Waiting' => sig = "fail"
      BY <1>5 DEF Reports
    <2>2. "fail" \in Waiting' /\ st' = "readUID" /\ pc' = "loop" => "UID" \in missed'
      <3> SUFFICES ASSUME sig = "fail", st = "readUID", pc = "loop" PROVE "UID" \in missed'
        BY <1>1, <2>1
      <3>1. i2c = <<"UID">> BY <1>1 DEF Inv, SessionInv
      <3>2. r = "UID" BY <1>2, <3>1
      <3> QED BY <1>4, <3>2
    <2>3. GivesUpLate'
      BY <1>1, <1>4, <1>6, <1>7, RegistersAre DEF Inv, ErrorInv, GivesUpLate
    <2>4. "maxRetries" \in Waiting' => failures' >= RetriesMax - Len(Registers)
      BY <1>6, <1>7, <2>1, RegistersAre DEF Inv, ErrorInv
    <2>5. "error" \in Waiting' => ~opened' BY <1>1, <2>1 DEF Inv, ErrorInv
    <2> QED BY <2>2, <2>3, <2>4, <2>5 DEF ErrorInv
  <1>13. RetriesInv'
    <2>1. PICK g \in 0 .. 1 : Failed = 0 /\ g = Failed' /\ (sig = "success" => g = 0)
      BY <1>5 DEF Failed, Reports
    <2>2. sig = "success" \/ sig = "fail" BY DEF Reports
    <2>3. ASSUME pc = "loop", st = "prepare"
          PROVE  failures' + retriesLeft + ft >= RetriesMax + g
      <3>1. Sending BY <1>1, <2>3 DEF Inv, SessionInv, Prepared, Quiet
      <3>2. failures + retriesLeft + ft >= RetriesMax BY <2>1, <2>3, <1>6 DEF Inv, RetriesInv
      <3>3. CASE sig = "success"
        <4>1. g = 0 /\ failures' = failures BY <1>1, <2>1, <3>3
        <4> QED BY <1>6, <3>2, <4>1
      <3>4. CASE sig = "fail"
        <4>1. failures' = (IF failures < RetriesMax THEN failures + 1 ELSE failures) /\ ft \in 1 .. 4
          BY <1>1, <1>3, <1>10, <3>1, <3>4
        <4> QED BY <1>6, <3>2, <4>1
      <3> QED BY <2>2, <3>3, <3>4
    <2>4. ASSUME pc = "verify"
          PROVE  /\ failures' + retriesLeft + ft >= RetriesMax
                 /\ retriesLeft > 0 =>
                        failures' + retriesLeft + ft >= RetriesMax + 1 + g
      <3>1. Sending BY <2>4 DEF Inv, SessionInv
      <3>2. /\ failures + retriesLeft + ft >= RetriesMax
            /\ retriesLeft > 0 => failures + retriesLeft + ft >= RetriesMax + 1
        BY <2>1, <2>4, <1>6 DEF Inv, RetriesInv
      <3>3. CASE sig = "success"
        <4>1. g = 0 /\ failures' = failures BY <1>1, <2>1, <3>3
        <4> QED BY <1>6, <3>2, <4>1
      <3>4. CASE sig = "fail"
        <4>1. failures' = (IF failures < RetriesMax THEN failures + 1 ELSE failures) /\ ft \in 1 .. 4
          BY <1>1, <1>3, <1>10, <3>1, <3>4
        <4> QED BY <1>6, <3>2, <4>1
      <3> QED BY <2>2, <3>3, <3>4
    <2>5. st \in {"init", "readUID"} => retriesLeft = RetriesMax BY DEF Inv, RetriesInv
    <2> QED BY <1>1, <2>1, <2>3, <2>4, <2>5 DEF RetriesInv
  <1> QED BY <1>8, <1>9, <1>11, <1>12, <1>13 DEF Inv

LEMMA I2CInv == ASSUME Inv, I2C PROVE Inv'
  <1>1. tag \subseteq Written(Head(i2c)) /\ Written(Head(i2c)) \subseteq Settings
    BY Types DEF Written, Inv
  <1>2. CASE TransferComplete
    <2>1. TransferEvent("success") /\ tag' = Written(Head(i2c)) BY <1>2 DEF TransferComplete
    <2>2. ASSUME Head(i2c) \in Settings PROVE Head(i2c) \in tag'
      <3>1. PICK r \in Transfers : i2c = <<r>> BY <2>1 DEF TransferEvent, Inv, OneOnItsWay
      <3>2. transferBuf = Head(i2c) BY <2>2, <3>1 DEF Inv, OneOnItsWay
      <3> QED BY <1>2, <2>1, <2>2, <3>2 DEF TransferComplete
    <2>3. "success" \in Reports BY DEF Reports
    <2> QED BY <1>1, <2>1, <2>2, <2>3, TransferEventInv
  <1>3. CASE TransferFailed
    <2>1. /\ TransferEvent("fail") /\ tag' \in {tag, Written(Head(i2c))} /\ "fail" \in Reports
          /\ tag \subseteq Settings
      BY <1>3, Types DEF TransferFailed, Reports, Inv
    <2> QED BY <1>1, <2>1, TransferEventInv
  <1> QED BY <1>2, <1>3 DEF I2C

-----------------------------------------------------------------------------
(* The theorems.                                                           *)

LEMMA InvAlways == Spec => []Inv
  <1>1. Init => Inv BY InitInv
  <1>2. Inv /\ [Next]_vars => Inv'
    <2> SUFFICES ASSUME Inv, [Next]_vars PROVE Inv' OBVIOUS
    <2>1. CASE Tasks
      <3>1. CASE VerifyRetries BY <3>1, VerifyRetriesInv
      <3>2. ASSUME pc = "loop", ReadUID PROVE Inv' BY <3>2, ReadUIDInv
      <3>3. ASSUME pc = "loop", SendRegister PROVE Inv' BY <3>3, SendRegisterInv
      <3>4. ASSUME pc = "loop", NothingToSend PROVE Inv' BY <3>4, NothingToSendInv
      <3>5. ASSUME pc = "loop", Idle PROVE Inv' BY <3>5, IdleInv
      <3>6. ASSUME pc = "loop", ReadInterruptStatus PROVE Inv' BY <3>6, ReadInterruptStatusInv
      <3>7. ASSUME pc = "loop", HandleInterruptStatus PROVE Inv'
        BY <3>7, HandleInterruptStatusInv
      <3>8. ASSUME pc = "loop", Error PROVE Inv' BY <3>8, ErrorActionInv
      <3>9. CASE Drop BY <3>9, DropInv
      <3> QED BY <2>1, <3>1, <3>2, <3>3, <3>4, <3>5, <3>6, <3>7, <3>8, <3>9 DEF Tasks
    <2>2. CASE I2C BY <2>2, I2CInv
    <2>3. CASE GPOPulse BY <2>3, GPOPulseInv
    <2>4. CASE UNCHANGED vars
      <3>1. /\ queue' \in Seq(Signals) /\ Len(queue') <= QueueMax /\ OneReport(queue')
            /\ Waiting' \subseteq Waiting \cup {"pulse"}
        BY <2>4, Types DEF vars, Inv, OneOnItsWay, Waiting
      <3> QED BY <2>4, <3>1, SameButForOthers DEF vars
    <2> QED BY <2>1, <2>2, <2>3, <2>4 DEF Next
  <1> QED BY <1>1, <1>2, PTL DEF Spec

(* The NFC actor's variables keep their types: no handler reads past the   *)
(* queue, the preparation has no step after the last.                      *)
THEOREM NfcTypeCorrect == Spec => []TypeOK
  <1>1. Inv => TypeOK BY DEF Inv
  <1> QED BY <1>1, InvAlways, PTL

(* The mailbox is only used with the tag set up, however many transfers    *)
(* fail, and wherever the interrupt meets the preparation.                 *)
THEOREM MailboxReadyAlways == Spec => []MailboxReady
  <1>1. Inv => MailboxReady BY DEF Inv, SessionInv, MailboxReady
  <1> QED BY <1>1, InvAlways, PTL

(* There is one transfer at a time, and the buffer keeps its message until *)
(* it has been sent.                                                       *)
THEOREM OneTransferAlways == Spec => []OneTransfer
  <1>1. ASSUME Inv PROVE OneTransfer
    <2>1. CASE i2c = <<>>
      <3>1. Len(i2c) = 0 /\ DOMAIN i2c = {} BY <2>1
      <3> QED BY <3>1 DEF OneTransfer
    <2>2. CASE i2c # <<>>
      <3>1. PICK r \in Transfers : i2c = <<r>> BY <1>1, <2>2 DEF Inv, OneOnItsWay
      <3>2. Len(i2c) = 1 /\ DOMAIN i2c = {1} /\ i2c[1] = r BY <3>1
      <3>3. r \in Settings => transferBuf = r BY <1>1, <3>1 DEF Inv, OneOnItsWay
      <3> QED BY <3>2, <3>3 DEF OneTransfer
    <2> QED BY <2>1, <2>2
  <1> QED BY <1>1, InvAlways, PTL

(* The actor gives up for a cause: no driver, no UID, or as many failed    *)
(* transfers as the retries allow but for one success of each step.        *)
THEOREM GivesUpLateAlways == Spec => []GivesUpLate
  <1>1. Inv => GivesUpLate BY DEF Inv, ErrorInv
  <1> QED BY <1>1, InvAlways, PTL
=============================================================================
