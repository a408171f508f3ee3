------------------------------- MODULE I2cProofs -------------------------------
(***************************************************************************)
(* Theorems about the I2C driver.                                          *)
(***************************************************************************)
EXTENDS I2cDriver, FiniteSetTheorems, FunctionTheorems, SequenceTheorems, TLAPS

-----------------------------------------------------------------------------
(* Taking elements out of a sequence.                                      *)

Kept(s, out) == DOMAIN s \ out
Place(kept, n) == CHOOSE k \in kept : Rank(kept, k) = n

(* The rank grows with the position.                                       *)
LEMMA RankGrows ==
    ASSUME NEW N \in Nat, NEW kept \in SUBSET (1 .. N), NEW i \in kept, NEW k \in kept
    PROVE  /\ Rank(kept, i) \in 1 .. Cardinality(kept)
           /\ i < k => Rank(kept, i) < Rank(kept, k)
  <1> DEFINE upto(m) == {j \in kept : j <= m}
  <1>1. IsFiniteSet(kept)
    <2>1. IsFiniteSet(1 .. N) BY FS_Interval
    <2> QED BY <2>1, FS_Subset
  <1>2. \A m \in kept : IsFiniteSet(upto(m)) /\ Cardinality(upto(m)) \in Nat
                        /\ Cardinality(upto(m)) <= Cardinality(kept)
    <2> TAKE m \in kept
    <2>1. upto(m) \in SUBSET kept OBVIOUS
    <2> QED BY <1>1, <2>1, FS_Subset, FS_CardinalityType
  <1>3. Cardinality(upto(i)) # 0
    <2>1. upto(i) # {} OBVIOUS
    <2> HIDE DEF upto
    <2> QED BY <1>2, <2>1, FS_EmptySet
  <1>4. ASSUME i < k PROVE Cardinality(upto(i)) < Cardinality(upto(k))
    <2> USE <1>4 DEF upto
    <2>0. \A j \in kept : j \in Int OBVIOUS
    <2>1. upto(i) \in SUBSET upto(k)
      <3> SUFFICES ASSUME NEW j \in kept, j <= i PROVE j <= k OBVIOUS
      <3> QED BY <2>0
    <2>3. k \in upto(k) /\ k \notin upto(i) BY <2>0
    <2> HIDE DEF upto
    <2>2. Cardinality(upto(i)) <= Cardinality(upto(k)) /\ Cardinality(upto(i)) # Cardinality(upto(k))
      BY <1>2, <2>1, <2>3, FS_Subset
    <2> QED BY <1>2, <2>2
  <1>5. Cardinality(kept) \in Nat BY <1>1, FS_CardinalityType
  <1> QED BY <1>2, <1>3, <1>4, <1>5 DEF Rank

(* Every rank up to the number of positions is that of one position.       *)
LEMMA Places ==
    ASSUME NEW N \in Nat, NEW kept \in SUBSET (1 .. N)
    PROVE  /\ IsFiniteSet(kept) /\ Cardinality(kept) \in Nat
           /\ \A n \in 1 .. Cardinality(kept) :
                Place(kept, n) \in kept /\ Rank(kept, Place(kept, n)) = n
           /\ \A k \in kept : /\ Rank(kept, k) \in 1 .. Cardinality(kept)
                              /\ Place(kept, Rank(kept, k)) = k
           /\ \A m, n \in 1 .. Cardinality(kept) : m < n <=> Place(kept, m) < Place(kept, n)
  <1> DEFINE c == Cardinality(kept)
             r == [k \in kept |-> Rank(kept, k)]
  <1>1. IsFiniteSet(kept) /\ c \in Nat
    <2>1. IsFiniteSet(1 .. N) BY FS_Interval
    <2>2. IsFiniteSet(kept) BY <2>1, FS_Subset
    <2> QED BY <2>2, FS_CardinalityType
  <1>2. \A i, k \in kept : Rank(kept, i) \in 1 .. c /\ (i < k => Rank(kept, i) < Rank(kept, k))
    BY RankGrows
  <1>3. \A i, k \in kept : Rank(kept, i) = Rank(kept, k) => i = k
    BY <1>2
  <1>4. r \in Injection(kept, 1 .. c)
    BY <1>2, <1>3 DEF Injection, IsInjective
  <1>5. IsFiniteSet(1 .. c) /\ Cardinality(1 .. c) = c
    BY <1>1, FS_Interval
  <1>6. r \in Surjection(kept, 1 .. c)
    BY <1>1, <1>4, <1>5, FS_Injection
  <1>7. \A n \in 1 .. c : \E k \in kept : Rank(kept, k) = n
    BY <1>6 DEF Surjection
  <1>8. \A n \in 1 .. c : Place(kept, n) \in kept /\ Rank(kept, Place(kept, n)) = n
    BY <1>7 DEF Place
  <1>9. \A k \in kept : Rank(kept, k) \in 1 .. c /\ Place(kept, Rank(kept, k)) = k
    BY <1>2, <1>3, <1>8
  <1>10. \A m, n \in 1 .. c : m < n <=> Place(kept, m) < Place(kept, n)
    <2> TAKE m, n \in 1 .. c
    <2> DEFINE x == Place(kept, m)
               y == Place(kept, n)
    <2>1. x \in kept /\ y \in kept /\ Rank(kept, x) = m /\ Rank(kept, y) = n
      BY <1>8
    <2>2. x < y => m < n BY <1>2, <2>1
    <2>3. y < x => n < m BY <1>2, <2>1
    <2>4. x = y => m = n BY <2>1
    <2> HIDE DEF x, y
    <2>5. x \in 1 .. N /\ y \in 1 .. N BY <2>1
    <2>6. m < n <=> x < y BY <1>1, <2>2, <2>3, <2>4, <2>5
    <2> QED BY <2>6 DEF x, y
  <1> QED BY <1>1, <1>8, <1>9, <1>10

(* What Without leaves: the elements at the places kept, in their order.   *)
LEMMA WithoutIs ==
    ASSUME NEW S, NEW s \in Seq(S), NEW out
    PROVE  LET kept == Kept(s, out)
           IN  /\ Without(s, out) \in Seq(S)
               /\ Len(Without(s, out)) = Cardinality(kept)
               /\ DOMAIN Without(s, out) = 1 .. Cardinality(kept)
               /\ \A n \in 1 .. Cardinality(kept) :
                    Place(kept, n) \in kept /\ Without(s, out)[n] = s[Place(kept, n)]
  <1> DEFINE kept == Kept(s, out)
  <1>1. kept \in SUBSET (1 .. Len(s)) /\ Len(s) \in Nat BY DEF Kept
  <1>2. /\ Cardinality(kept) \in Nat
        /\ \A n \in 1 .. Cardinality(kept) : Place(kept, n) \in kept
    BY <1>1, Places
  <1>3. Without(s, out) = [n \in 1 .. Cardinality(kept) |-> s[Place(kept, n)]]
    BY DEF Without, Place, Kept
  <1>4. \A n \in 1 .. Cardinality(kept) : s[Place(kept, n)] \in S
    <2> TAKE n \in 1 .. Cardinality(kept)
    <2>1. Place(kept, n) \in 1 .. Len(s) BY <1>1, <1>2
    <2> QED BY <2>1
  <1> HIDE DEF kept
  <1>5. Without(s, out) \in Seq(S) /\ Len(Without(s, out)) = Cardinality(kept)
        /\ DOMAIN Without(s, out) = 1 .. Cardinality(kept)
    BY <1>2, <1>3, <1>4
  <1> QED BY <1>2, <1>3, <1>5 DEF kept

-----------------------------------------------------------------------------
(* The list and the master.  Busy: the oldest transfer is under way.       *)
(* Resting: between two transfers, all of the list waits.                  *)

MasterType == [state : {"idle", "read", "write"}, shape : Shapes \cup {NoBytes},
               written : Nat, read : Nat, error : {"none", "nak"}]
QType == [obj : [Objects -> ObjType], list : Seq(Objects), master : MasterType,
          refused : BOOLEAN]

Free(s, o) == s.obj[o].state = "free"
Distinct(l) == \A j, k \in DOMAIN l : l[j] = l[k] => j = k
Listed(s) == \A o \in Objects : ~Free(s, o) <=> \E k \in DOMAIN s.list : s.list[k] = o
Owned(s) ==
    \A o \in Objects : ~Free(s, o) =>
        /\ s.obj[o].owner \in Clients \X Tokens
        /\ s.obj[o].token \in Tokens /\ s.obj[o].event = "pending"
MasterInv(m) ==
    /\ m.state = "write" => m.written <= m.shape[1]
    /\ m.state = "read" => m.written = m.shape[1]

Sound(s) ==
    /\ s \in QType
    /\ Distinct(s.list) /\ Listed(s) /\ Owned(s) /\ MasterInv(s.master) /\ ~s.refused

Busy(s) ==
    /\ Sound(s)
    /\ \A k \in DOMAIN s.list : s.obj[s.list[k]].state = "processing" <=> k = 1
    /\ s.master.state # "idle" <=> s.list # <<>>

Resting(s) ==
    /\ Sound(s)
    /\ \A k \in DOMAIN s.list : s.obj[s.list[k]].state = "queued"
    /\ s.master.state = "idle"

(* What the clients see of a transfer object.                              *)
Same(x, y) == /\ x.token = y.token /\ x.owner = y.owner /\ x.event = y.event
              /\ x.state = "free" <=> y.state = "free"
Untouched(s, t) == \A o \in Objects : Same(s.obj[o], t.obj[o])

LEMMA HeadOfList ==
    ASSUME NEW S, NEW l \in Seq(S), l # <<>>
    PROVE  /\ Len(l) \in Nat \ {0} /\ DOMAIN l = 1 .. Len(l) /\ Head(l) = l[1] /\ l[1] \in S
           /\ 1 \in DOMAIN l
           /\ Tail(l) \in Seq(S) /\ Len(Tail(l)) = Len(l) - 1
           /\ DOMAIN Tail(l) = 1 .. Len(l) - 1
           /\ \A k \in 1 .. Len(l) - 1 : Tail(l)[k] = l[k + 1]
  OBVIOUS

LEMMA EndOfList ==
    ASSUME NEW S, NEW l \in Seq(S), NEW x \in S
    PROVE  /\ Append(l, x) \in Seq(S) /\ Len(Append(l, x)) = Len(l) + 1 /\ Len(l) \in Nat
           /\ DOMAIN Append(l, x) = 1 .. Len(l) + 1 /\ DOMAIN l = 1 .. Len(l)
           /\ \A k \in 1 .. Len(l) : Append(l, x)[k] = l[k]
           /\ Append(l, x)[Len(l) + 1] = x
           /\ Append(l, x) # <<>>
  OBVIOUS

(* A start makes the oldest transfer the one under way, and nothing else.  *)
LEMMA StartBusy ==
    ASSUME NEW s, Resting(s), s.list # <<>>
    PROVE  LET t == Start(s, Head(s.list))
           IN  Busy(t) /\ t.list = s.list /\ Untouched(s, t)
  <1> DEFINE o == Head(s.list)
             t == Start(s, o)
             m == [state |-> IF s.obj[o].shape[1] = 0 THEN "read" ELSE "write",
                   shape |-> s.obj[o].shape, written |-> 0, read |-> 0, error |-> "none"]
  <1>1. s \in QType /\ s.master.state = "idle" BY DEF Resting, Sound
  <1>2. o = s.list[1] /\ 1 \in DOMAIN s.list /\ o \in Objects
    BY <1>1, HeadOfList DEF QType
  <1>3. t = [s EXCEPT !.obj[o].state = "processing", !.master = m]
    BY <1>1 DEF Start
  <1> HIDE DEF o, t
  <1>4. s.obj[o].shape \in (Nat \X Nat) /\ s.obj[o].shape \in Shapes \cup {NoBytes}
    BY <1>1, <1>2, I2cAssumption DEF QType, ObjType, NoBytes
  <1>5. m \in MasterType /\ MasterInv(m) /\ m.state # "idle"
    BY <1>4 DEF MasterType, MasterInv
  <1> HIDE DEF m
  <1>6. t \in QType /\ t.list = s.list /\ t.master = m /\ ~t.refused
    <2>1. s.obj \in [Objects -> ObjType] /\ s.obj[o] \in ObjType BY <1>1, <1>2 DEF QType
    <2>2. [s.obj EXCEPT ![o].state = "processing"] \in [Objects -> ObjType]
      BY <2>1, <1>2 DEF ObjType
    <2>3. /\ t.list = s.list /\ t.master = m /\ t.refused = s.refused
          /\ t.obj = [s.obj EXCEPT ![o].state = "processing"]
          /\ t = [obj |-> t.obj, list |-> t.list, master |-> t.master, refused |-> t.refused]
      BY <1>1, <1>3 DEF QType
    <2> QED BY <1>1, <1>5, <2>2, <2>3 DEF QType, Resting, Sound
  <1>7. /\ \A p \in Objects \ {o} : t.obj[p] = s.obj[p]
        /\ t.obj[o] = [s.obj[o] EXCEPT !.state = "processing"]
    BY <1>1, <1>2, <1>3 DEF QType
  <1>8. s.obj[o].state = "queued" /\ s.obj[o] \in ObjType BY <1>1, <1>2 DEF Resting, QType
  <1>9. Same(s.obj[o], t.obj[o]) /\ t.obj[o].state = "processing"
    BY <1>7, <1>8 DEF Same, ObjType
  <1>10. Untouched(s, t) BY <1>2, <1>7, <1>9 DEF Untouched, Same
  <1>11. Distinct(t.list) /\ Listed(t) /\ Owned(t)
    BY <1>6, <1>10 DEF Resting, Sound, Untouched, Same, Listed, Owned, Free
  <1>12. ASSUME NEW k \in DOMAIN t.list PROVE t.obj[t.list[k]].state = "processing" <=> k = 1
    <2>1. CASE k = 1 BY <2>1, <1>2, <1>6, <1>9
    <2>2. CASE k # 1
      <3>1. t.list[k] # o BY <2>2, <1>2, <1>6 DEF Resting, Sound, Distinct
      <3>2. t.list[k] \in Objects BY <1>6 DEF QType
      <3> QED BY <2>2, <3>1, <3>2, <1>6, <1>7 DEF Resting
    <2> QED BY <2>1, <2>2
  <1> QED BY <1>5, <1>6, <1>10, <1>11, <1>12 DEF Busy, Sound, t, o

LEMMA InitiatedBusy ==
    ASSUME NEW s, Resting(s) \/ Busy(s)
    PROVE  LET t == Initiated(s)
           IN  Busy(t) /\ t.list = s.list /\ Untouched(s, t)
  <1>0. s \in QType /\ Untouched(s, s) BY DEF Resting, Busy, Sound, Untouched, Same
  <1>1. CASE s.list = <<>>
    <2>1. Initiated(s) = s BY <1>1 DEF Initiated
    <2>2. Busy(s)
      <3>1. CASE Busy(s) BY <3>1
      <3>2. CASE Resting(s)
        <4>1. DOMAIN s.list = {} BY <1>1
        <4> QED BY <1>1, <4>1, <3>2 DEF Resting, Busy
      <3> QED BY <3>1, <3>2
    <2> QED BY <1>0, <2>1, <2>2
  <1>2. CASE s.list # <<>> /\ Resting(s)
    <2>1. s.list[1] = Head(s.list) /\ 1 \in DOMAIN s.list BY <1>0, <1>2, HeadOfList DEF QType
    <2>2. Initiated(s) = Start(s, Head(s.list)) BY <1>2, <2>1 DEF Initiated, Resting
    <2> QED BY <1>2, <2>2, StartBusy
  <1>3. CASE s.list # <<>> /\ Busy(s)
    <2>1. s.list[1] = Head(s.list) /\ 1 \in DOMAIN s.list BY <1>0, <1>3, HeadOfList DEF QType
    <2>2. s.obj[Head(s.list)].state = "processing" BY <1>3, <2>1 DEF Busy
    <2>3. Initiated(s) = s BY <2>2 DEF Initiated
    <2> QED BY <1>0, <1>3, <2>3
  <1> QED BY <1>1, <1>2, <1>3

(* i is s with the master idle and the oldest transfer's outcome noted.    *)
Ended(s, i, event) ==
    LET o == Head(s.list)
    IN  /\ i.list = s.list /\ i.master = IdleMaster /\ i.refused = s.refused
        /\ i = [obj |-> i.obj, list |-> i.list, master |-> i.master, refused |-> i.refused]
        /\ i.obj \in [Objects -> ObjType]
        /\ \A p \in Objects \ {o} : i.obj[p] = s.obj[p]
        /\ i.obj[o].token = s.obj[o].token /\ i.obj[o].event = event

LEMMA EndedByEvent ==
    ASSUME NEW s, Busy(s), s.list # <<>>,
           NEW event \in {"pending", "complete", "error"}
    PROVE  Ended(s, [[s EXCEPT !.master = IdleMaster] EXCEPT !.obj[Head(s.list)].event = event], event)
  <1> DEFINE o == Head(s.list)
             x == [s EXCEPT !.master = IdleMaster]
             i == [x EXCEPT !.obj[o].event = event]
  <1>1. s \in QType /\ s.list \in Seq(Objects) /\ s.obj \in [Objects -> ObjType]
    BY DEF Busy, Sound, QType
  <1>2. o \in Objects BY <1>1, HeadOfList
  <1>3. x.obj = s.obj /\ x.list = s.list /\ x.master = IdleMaster /\ x.refused = s.refused
        /\ x = [obj |-> x.obj, list |-> x.list, master |-> x.master, refused |-> x.refused]
    BY <1>1 DEF QType
  <1> HIDE DEF o, x
  <1>4. i.list = s.list /\ i.master = IdleMaster /\ i.refused = s.refused
        /\ i.obj = [s.obj EXCEPT ![o].event = event]
        /\ i = [obj |-> i.obj, list |-> i.list, master |-> i.master, refused |-> i.refused]
    BY <1>3
  <1> HIDE DEF i
  <1>5. s.obj[o] \in ObjType BY <1>1, <1>2
  <1>6. [s.obj[o] EXCEPT !.event = event] \in ObjType
        /\ [s.obj[o] EXCEPT !.event = event].event = event
        /\ [s.obj[o] EXCEPT !.event = event].token = s.obj[o].token
    BY <1>5 DEF ObjType
  <1>7. i.obj \in [Objects -> ObjType] /\ i.obj[o] = [s.obj[o] EXCEPT !.event = event]
        /\ \A p \in Objects \ {o} : i.obj[p] = s.obj[p]
    BY <1>1, <1>2, <1>4, <1>6
  <1>8. Ended(s, i, event) BY <1>4, <1>6, <1>7 DEF Ended, o
  <1> QED BY <1>8 DEF i, x, o

LEMMA EndedByAbort ==
    ASSUME NEW s, Busy(s), s.list # <<>>
    PROVE  Ended(s, [s EXCEPT !.master = IdleMaster], s.obj[Head(s.list)].event)
  <1> DEFINE x == [s EXCEPT !.master = IdleMaster]
  <1>1. s \in QType /\ s.obj \in [Objects -> ObjType]
    BY DEF Busy, Sound, QType
  <1>2. x.obj = s.obj /\ x.list = s.list /\ x.master = IdleMaster /\ x.refused = s.refused
        /\ x = [obj |-> x.obj, list |-> x.list, master |-> x.master, refused |-> x.refused]
    BY <1>1 DEF QType
  <1> HIDE DEF x
  <1>3. Ended(s, x, s.obj[Head(s.list)].event) BY <1>1, <1>2 DEF Ended
  <1> QED BY <1>3 DEF x

(* The oldest transfer leaves: its object is free, and the master rests.   *)
LEMMA RemovedResting ==
    ASSUME NEW s, Busy(s), s.list # <<>>, NEW event, NEW i, Ended(s, i, event)
    PROVE  LET t == Removed(i)
               o == Head(s.list)
           IN  /\ Resting(t) /\ t.list = Tail(s.list) /\ o \in Objects
               /\ \A p \in Objects \ {o} : t.obj[p] = s.obj[p]
               /\ t.obj[o].state = "free" /\ t.obj[o].token = s.obj[o].token
               /\ t.obj[o].event = event
               /\ ~Free(s, o)
  <1> DEFINE o == Head(s.list)
             t == Removed(i)
  <1>1. s \in QType /\ s.list \in Seq(Objects) BY DEF Busy, Sound, QType
  <1>2. /\ o = s.list[1] /\ 1 \in DOMAIN s.list /\ o \in Objects
        /\ Tail(s.list) \in Seq(Objects) /\ DOMAIN Tail(s.list) = 1 .. Len(s.list) - 1
        /\ \A k \in 1 .. Len(s.list) - 1 : Tail(s.list)[k] = s.list[k + 1]
        /\ Len(s.list) \in Nat \ {0} /\ DOMAIN s.list = 1 .. Len(s.list)
    BY <1>1, HeadOfList
  <1>3. i.list = s.list /\ i.master = IdleMaster /\ i.refused = s.refused
        /\ i = [obj |-> i.obj, list |-> i.list, master |-> i.master, refused |-> i.refused]
    BY DEF Ended
  <1>4. t = [i EXCEPT !.obj[o] = Freed(@), !.list = Tail(@)]
    BY <1>3 DEF Removed
  <1> HIDE DEF t
  <1>5. s.obj \in [Objects -> ObjType] /\ s.obj[o] \in ObjType BY <1>1, <1>2 DEF QType
  <1>6. i.obj \in [Objects -> ObjType] /\ \A p \in Objects \ {o} : i.obj[p] = s.obj[p]
    BY DEF Ended
  <1>7. t.list = Tail(s.list) /\ t.master = IdleMaster /\ t.refused = s.refused
        /\ t.obj = [i.obj EXCEPT ![o] = Freed(i.obj[o])]
        /\ t = [obj |-> t.obj, list |-> t.list, master |-> t.master, refused |-> t.refused]
    BY <1>3, <1>4, <1>2
  <1>8. Freed(i.obj[o]) \in ObjType /\ Freed(i.obj[o]).state = "free"
        /\ Freed(i.obj[o]).token = s.obj[o].token /\ Freed(i.obj[o]).event = event
    <2>1. NoHandle \in (0 .. NumClients) \X (0 .. TokenMax - 1)
      BY I2cAssumption DEF NoHandle
    <2>2. i.obj[o] \in ObjType BY <1>2, <1>6
    <2>3. Freed(i.obj[o]) \in ObjType
      BY <2>1, <2>2 DEF Freed, ObjType
    <2>4. i.obj[o].token = s.obj[o].token /\ i.obj[o].event = event
      BY DEF Ended
    <2> QED BY <2>2, <2>3, <2>4 DEF Freed, ObjType
  <1>9. /\ \A p \in Objects \ {o} : t.obj[p] = s.obj[p]
        /\ t.obj[o] = Freed(i.obj[o]) /\ t.obj \in [Objects -> ObjType]
    BY <1>2, <1>6, <1>7, <1>8
  <1>10. IdleMaster \in MasterType /\ MasterInv(IdleMaster) /\ IdleMaster.state = "idle"
    BY DEF IdleMaster, MasterType, MasterInv
  <1>11. t \in QType /\ ~t.refused
    BY <1>1, <1>2, <1>7, <1>9, <1>10 DEF QType, Busy, Sound
  <1> HIDE DEF o
  <1>12. Distinct(s.list) /\ Listed(s) /\ Owned(s) BY DEF Busy, Sound
  <1>13. Distinct(t.list)
    <2> SUFFICES ASSUME NEW j \in DOMAIN t.list, NEW k \in DOMAIN t.list, t.list[j] = t.list[k]
                 PROVE  j = k
      BY DEF Distinct
    <2>1. j \in 1 .. Len(s.list) - 1 /\ k \in 1 .. Len(s.list) - 1 BY <1>2, <1>7
    <2>2. s.list[j + 1] = s.list[k + 1] BY <2>1, <1>2, <1>7
    <2>3. j + 1 \in DOMAIN s.list /\ k + 1 \in DOMAIN s.list BY <2>1, <1>2
    <2>4. j + 1 = k + 1 BY <2>2, <2>3, <1>12 DEF Distinct
    <2> QED BY <2>1, <2>4
  <1>14. \A k \in DOMAIN t.list : t.list[k] = s.list[k + 1] /\ k + 1 \in DOMAIN s.list /\ k + 1 # 1
                                  /\ t.list[k] \in Objects \ {o}
    BY <1>2, <1>7, <1>12 DEF Distinct
  <1>15. \A j \in DOMAIN s.list : s.list[j] # o => j - 1 \in DOMAIN t.list /\ t.list[j - 1] = s.list[j]
    BY <1>2, <1>7
  <1>16. ASSUME NEW p \in Objects
         PROVE  ~Free(t, p) <=> \E k \in DOMAIN t.list : t.list[k] = p
    <2>1. CASE p = o BY <2>1, <1>8, <1>9, <1>14 DEF Free
    <2>2. CASE p # o
      <3>1. Free(t, p) <=> Free(s, p) BY <2>2, <1>9 DEF Free
      <3>2. (\E k \in DOMAIN t.list : t.list[k] = p) <=> (\E k \in DOMAIN s.list : s.list[k] = p)
        <4>1. ASSUME NEW k \in DOMAIN t.list, t.list[k] = p
              PROVE  \E j \in DOMAIN s.list : s.list[j] = p
          BY <4>1, <1>14
        <4>2. ASSUME NEW j \in DOMAIN s.list, s.list[j] = p
              PROVE  \E k \in DOMAIN t.list : t.list[k] = p
          BY <4>2, <2>2, <1>15
        <4> QED BY <4>1, <4>2
      <3> QED BY <3>1, <3>2, <1>12 DEF Listed
    <2> QED BY <2>1, <2>2
  <1>17. Owned(t) BY <1>8, <1>9, <1>12 DEF Owned, Free
  <1>18. \A k \in DOMAIN t.list : t.obj[t.list[k]].state = "queued"
    <2> TAKE k \in DOMAIN t.list
    <2>1. t.obj[t.list[k]] = s.obj[s.list[k + 1]] BY <1>9, <1>14
    <2>2. s.obj[s.list[k + 1]].state # "processing" BY <1>14 DEF Busy
    <2>3. ~Free(s, s.list[k + 1]) BY <1>12, <1>14 DEF Listed
    <2>4. s.obj[s.list[k + 1]] \in ObjType BY <1>5, <1>14
    <2> QED BY <2>1, <2>2, <2>3, <2>4 DEF Free, ObjType
  <1>19. ~Free(s, o) BY <1>2, <1>12 DEF Listed
  <1> QED BY <1>2, <1>7, <1>8, <1>9, <1>10, <1>11, <1>13, <1>16, <1>17, <1>18, <1>19
          DEF Resting, Sound, Listed, t, o

(* A set of positions that is not empty has a first.                       *)
LEMMA First ==
    ASSUME NEW N \in Nat, NEW kept \in SUBSET (1 .. N), kept # {}
    PROVE  \E o \in kept : \A p \in kept : o <= p
  <1>1. IsFiniteSet(kept) /\ Cardinality(kept) \in Nat BY Places
  <1>4. Cardinality(kept) # 0 BY <1>1, FS_EmptySet
  <1>5. 1 \in 1 .. Cardinality(kept) BY <1>1, <1>4
  <1>2. PICK o \in kept : Rank(kept, o) = 1
    <2>1. Place(kept, 1) \in kept /\ Rank(kept, Place(kept, 1)) = 1 BY <1>5, Places
    <2> QED BY <2>1
  <1>3. ASSUME NEW p \in kept PROVE o <= p
    <2>1. p < o => Rank(kept, p) < Rank(kept, o) BY RankGrows
    <2>2. Rank(kept, p) \in 1 .. Cardinality(kept) BY RankGrows
    <2>3. p \in Int /\ o \in Int OBVIOUS
    <2> QED BY <1>1, <1>2, <2>1, <2>2, <2>3
  <1> QED BY <1>3

LEMMA FirstFreeIs ==
    ASSUME NEW s, FreeObjects(s) # {}
    PROVE  FirstFree(s) \in Objects /\ Free(s, FirstFree(s))
  <1>1. FreeObjects(s) \in SUBSET (1 .. PoolSize) /\ PoolSize \in Nat
    BY I2cAssumption DEF FreeObjects, Objects
  <1>2. \E o \in FreeObjects(s) : \A p \in FreeObjects(s) : o <= p
    BY <1>1, First
  <1>3. FirstFree(s) \in FreeObjects(s) BY <1>2 DEF FirstFree
  <1> QED BY <1>3 DEF FreeObjects, Free

(* A new transfer takes the first free object, goes to the end of the      *)
(* list, and is started at once if it is alone there.                      *)
LEMMA AddedKeeps ==
    ASSUME NEW s, Busy(s) \/ Resting(s), FreeObjects(s) # {}, NEW c \in Clients, InUse(c),
           client[c].token \in 0 .. TokenMax - 1, token \in Tokens, NEW shape \in Shapes
    PROVE  LET t == Added(s, c, shape)
               o == FirstFree(s)
           IN  /\ Busy(t) \/ Resting(t)
               /\ Busy(s) => Busy(t)
               /\ o \in Objects /\ Free(s, o) /\ ~Free(t, o)
               /\ t.list = Append(s.list, o)
               /\ t.obj[o].token = token /\ t.obj[o].owner = ClientHandle(c)
               /\ t.obj[o].event = "pending"
               /\ \A p \in Objects \ {o} : Same(s.obj[p], t.obj[p])
  <1> DEFINE o == FirstFree(s)
             x == [state |-> "queued", token |-> token, owner |-> ClientHandle(c),
                   shape |-> shape, event |-> "pending"]
             u == [s EXCEPT !.obj[o] = x, !.list = Append(@, o)]
             w == [s.obj EXCEPT ![o] = x]
             l == Append(s.list, o)
  <1>1. o \in Objects /\ Free(s, o) BY FirstFreeIs
  <1>2. s \in QType /\ s.list \in Seq(Objects) /\ s.obj \in [Objects -> ObjType]
    BY DEF Busy, Resting, Sound, QType
  <1>3. ClientHandle(c) \in Clients \X Tokens
    BY I2cAssumption DEF ClientHandle, InUse, Tokens
  <1>4. x \in ObjType
    BY <1>3, I2cAssumption DEF ObjType, Clients, Tokens
  <1> HIDE DEF o
  <1>5. /\ u.list = Append(s.list, o) /\ u.obj = [s.obj EXCEPT ![o] = x]
        /\ u.master = s.master /\ u.refused = s.refused
        /\ u = [obj |-> u.obj, list |-> u.list, master |-> u.master, refused |-> u.refused]
    <2>1. u = [s EXCEPT !.obj = w, !.list = l] OBVIOUS
    <2>2. w = [s.obj EXCEPT ![o] = x] /\ l = Append(s.list, o) OBVIOUS
    <2> HIDE DEF u, w, l, x
    <2>3. /\ u.list = l /\ u.obj = w /\ u.master = s.master /\ u.refused = s.refused
          /\ u = [obj |-> u.obj, list |-> u.list, master |-> u.master, refused |-> u.refused]
      BY <1>2, <2>1 DEF QType
    <2> QED BY <2>2, <2>3
  <1>6. /\ x.state = "queued" /\ x.token = token /\ x.owner = ClientHandle(c)
        /\ x.event = "pending"
    OBVIOUS
  <1>7. Added(s, c, shape) = IF s.list = <<>> THEN Start(u, o) ELSE u
    BY DEF Added, o
  <1> HIDE DEF u, x
  <1>8. /\ u.obj[o] = x /\ \A p \in Objects \ {o} : u.obj[p] = s.obj[p]
        /\ u.obj \in [Objects -> ObjType]
    BY <1>1, <1>2, <1>4, <1>5
  <1>9. /\ u.list \in Seq(Objects) /\ DOMAIN u.list = 1 .. Len(s.list) + 1
        /\ DOMAIN s.list = 1 .. Len(s.list) /\ Len(s.list) \in Nat
        /\ \A k \in 1 .. Len(s.list) : u.list[k] = s.list[k]
        /\ u.list[Len(s.list) + 1] = o /\ u.list # <<>>
    BY <1>1, <1>2, <1>5, EndOfList
  <1>10. Sound(s) BY DEF Busy, Resting
  <1>11. \A k \in DOMAIN s.list : s.list[k] # o /\ s.list[k] \in Objects
    BY <1>1, <1>2, <1>10 DEF Sound, Listed
  <1>12. Sound(u)
    <2>1. u \in QType /\ MasterInv(u.master) /\ ~u.refused
      BY <1>2, <1>5, <1>8, <1>9, <1>10 DEF QType, Sound
    <2>2. Distinct(u.list)
      <3> SUFFICES ASSUME NEW j \in DOMAIN u.list, NEW k \in DOMAIN u.list, u.list[j] = u.list[k]
                   PROVE  j = k
        BY DEF Distinct
      <3>1. CASE j = Len(s.list) + 1 /\ k = Len(s.list) + 1 BY <3>1
      <3>2. CASE j \in DOMAIN s.list /\ k \in DOMAIN s.list
        BY <3>2, <1>9, <1>10 DEF Sound, Distinct
      <3>3. CASE j = Len(s.list) + 1 /\ k \in DOMAIN s.list BY <3>3, <1>9, <1>11
      <3>4. CASE k = Len(s.list) + 1 /\ j \in DOMAIN s.list BY <3>4, <1>9, <1>11
      <3> QED BY <3>1, <3>2, <3>3, <3>4, <1>9
    <2>3. Listed(u)
      <3> SUFFICES ASSUME NEW p \in Objects
                   PROVE  ~Free(u, p) <=> \E k \in DOMAIN u.list : u.list[k] = p
        BY DEF Listed
      <3>1. CASE p = o BY <3>1, <1>6, <1>8, <1>9 DEF Free
      <3>2. CASE p # o
        <4>1. Free(u, p) <=> Free(s, p) BY <3>2, <1>8 DEF Free
        <4>2. ASSUME NEW k \in DOMAIN u.list, u.list[k] = p
              PROVE  \E j \in DOMAIN s.list : s.list[j] = p
          BY <4>2, <3>2, <1>9
        <4>3. ASSUME NEW j \in DOMAIN s.list, s.list[j] = p
              PROVE  \E k \in DOMAIN u.list : u.list[k] = p
          BY <4>3, <1>9
        <4> QED BY <4>1, <4>2, <4>3, <1>10 DEF Sound, Listed
      <3> QED BY <3>1, <3>2
    <2>4. Owned(u) BY <1>3, <1>6, <1>8, <1>10 DEF Owned, Sound, Free
    <2> QED BY <2>1, <2>2, <2>3, <2>4 DEF Sound
  <1>13. \A p \in Objects \ {o} : Same(s.obj[p], u.obj[p]) BY <1>8 DEF Same
  <1>14. CASE s.list = <<>>
    <2>1. s.master.state = "idle" /\ DOMAIN s.list = {} /\ Len(s.list) = 0
      BY <1>14 DEF Busy, Resting
    <2>2. u.list = <<o>> BY <1>5, <1>14
    <2>3. Resting(u)
      BY <2>1, <2>2, <1>5, <1>6, <1>8, <1>12 DEF Resting
    <2>4. Head(u.list) = o BY <2>2
    <2>5. Busy(Start(u, o)) /\ Start(u, o).list = u.list /\ Untouched(u, Start(u, o))
      BY <2>3, <2>4, <1>9, StartBusy
    <2>6. Added(s, c, shape) = Start(u, o) BY <1>7, <1>14
    <2>7. Same(u.obj[o], Start(u, o).obj[o]) BY <2>5, <1>1 DEF Untouched
    <2>8. \A p \in Objects \ {o} : Same(s.obj[p], Start(u, o).obj[p])
      BY <2>5, <1>13 DEF Untouched, Same
    <2> QED BY <2>5, <2>6, <2>7, <2>8, <1>1, <1>5, <1>6, <1>8 DEF Same, Free, o
  <1>15. CASE s.list # <<>>
    <2>1. Added(s, c, shape) = u BY <1>7, <1>15
    <2>2. ASSUME Busy(s) PROVE Busy(u)
      <3>1. 1 \in DOMAIN s.list BY <1>2, <1>15, HeadOfList
      <3>2. \A k \in DOMAIN u.list : u.obj[u.list[k]].state = "processing" <=> k = 1
        <4> TAKE k \in DOMAIN u.list
        <4>1. CASE k \in DOMAIN s.list
          BY <4>1, <2>2, <1>8, <1>9, <1>11 DEF Busy
        <4>2. CASE k = Len(s.list) + 1
          BY <4>2, <3>1, <1>6, <1>8, <1>9
        <4> QED BY <4>1, <4>2, <1>9
      <3> QED BY <3>2, <2>2, <1>5, <1>9, <1>12, <1>15 DEF Busy
    <2>3. ASSUME Resting(s) PROVE Resting(u)
      <3>1. \A k \in DOMAIN u.list : u.obj[u.list[k]].state = "queued"
        <4> TAKE k \in DOMAIN u.list
        <4>1. CASE k \in DOMAIN s.list
          BY <4>1, <2>3, <1>8, <1>9, <1>11 DEF Resting
        <4>2. CASE k = Len(s.list) + 1
          BY <4>2, <1>6, <1>8, <1>9
        <4> QED BY <4>1, <4>2, <1>9
      <3> QED BY <3>1, <2>3, <1>5, <1>12 DEF Resting
    <2> QED BY <2>1, <2>2, <2>3, <1>1, <1>5, <1>6, <1>8, <1>13 DEF Free, o
  <1> QED BY <1>14, <1>15

(* The places of the list that client c withdraws from.                    *)
Leaving(s, c) == {k \in DOMAIN s.list : Withdrawn(s, s.list[k], c)}

(* Withdrawing keeps the transfer under way, and frees the others of the   *)
(* client; the list keeps its order.                                       *)
LEMMA WithdrawKeeps ==
    ASSUME NEW s, Busy(s) \/ Resting(s), NEW c
    PROVE  LET t == RemoveClientTransfers(s, c)
           IN  /\ Busy(s) => Busy(t)
               /\ Resting(s) => Resting(t)
               /\ t.list = Without(s.list, Leaving(s, c)) /\ t.list \in Seq(Objects)
               /\ \A o \in Objects :
                     IF \E k \in Leaving(s, c) : s.list[k] = o
                     THEN Free(t, o) /\ t.obj[o].token = s.obj[o].token
                     ELSE t.obj[o] = s.obj[o]
  <1> DEFINE t == RemoveClientTransfers(s, c)
             out == Leaving(s, c)
             kept == Kept(s.list, out)
             n == Cardinality(kept)
             gone(o) == \E k \in out : s.list[k] = o
             freed(o) == [Freed(s.obj[o]) EXCEPT !.event = "complete"]
  <1>1. Sound(s) /\ s \in QType /\ s.list \in Seq(Objects) /\ s.obj \in [Objects -> ObjType]
    BY DEF Busy, Resting, Sound, QType
  <1>2. t = [s EXCEPT !.list = Without(@, out),
                      !.obj = [o \in Objects |-> IF gone(o) THEN freed(o) ELSE s.obj[o]]]
    BY DEF RemoveClientTransfers, Leaving
  <1>3. kept = {k \in DOMAIN s.list : ~Withdrawn(s, s.list[k], c)} /\ kept \in SUBSET (1 .. Len(s.list))
        /\ DOMAIN s.list = 1 .. Len(s.list) /\ Len(s.list) \in Nat
    BY <1>1 DEF Kept, Leaving
  <1>4. \A k \in out : Withdrawn(s, s.list[k], c) /\ k \in DOMAIN s.list BY DEF Leaving
  <1> HIDE DEF t, out, kept
  <1>5. /\ Without(s.list, out) \in Seq(Objects) /\ n \in Nat
        /\ DOMAIN Without(s.list, out) = 1 .. n
        /\ \A i \in 1 .. n : Place(kept, i) \in kept /\ Without(s.list, out)[i] = s.list[Place(kept, i)]
        /\ \A k \in kept : Rank(kept, k) \in 1 .. n /\ Place(kept, Rank(kept, k)) = k
        /\ \A i, j \in 1 .. n : i < j <=> Place(kept, i) < Place(kept, j)
    <2>1. /\ n \in Nat /\ \A k \in kept : Rank(kept, k) \in 1 .. n /\ Place(kept, Rank(kept, k)) = k
          /\ \A i, j \in 1 .. n : i < j <=> Place(kept, i) < Place(kept, j)
      BY <1>3, Places
    <2>2. /\ Without(s.list, out) \in Seq(Objects) /\ DOMAIN Without(s.list, out) = 1 .. n
          /\ \A i \in 1 .. n : Place(kept, i) \in kept /\ Without(s.list, out)[i] = s.list[Place(kept, i)]
      BY <1>1, WithoutIs DEF kept
    <2> QED BY <2>1, <2>2
  <1> HIDE DEF n
  <1>6. /\ t.list = Without(s.list, out) /\ t.master = s.master /\ t.refused = s.refused
        /\ t.obj = [o \in Objects |-> IF gone(o) THEN freed(o) ELSE s.obj[o]]
        /\ t = [obj |-> t.obj, list |-> t.list, master |-> t.master, refused |-> t.refused]
    BY <1>1, <1>2 DEF QType
  <1>7. ASSUME NEW o \in Objects
        PROVE  /\ freed(o) \in ObjType /\ freed(o).state = "free"
               /\ freed(o).token = s.obj[o].token
    <2>1. s.obj[o] \in ObjType BY <1>1
    <2>2. NoHandle \in (0 .. NumClients) \X (0 .. TokenMax - 1)
      BY I2cAssumption DEF NoHandle
    <2> QED BY <2>1, <2>2 DEF Freed, ObjType
  <1> HIDE DEF freed
  <1>8. \A o \in Objects :
          IF gone(o) THEN Free(t, o) /\ t.obj[o].token = s.obj[o].token ELSE t.obj[o] = s.obj[o]
    BY <1>6, <1>7 DEF Free
  <1>9. t.obj \in [Objects -> ObjType] BY <1>1, <1>6, <1>7
  <1>10. t \in QType BY <1>1, <1>5, <1>6, <1>9 DEF QType
  <1>11. \A k \in kept : ~gone(s.list[k]) /\ k \in DOMAIN s.list /\ s.list[k] \in Objects
    <2> TAKE k \in kept
    <2>1. k \in DOMAIN s.list /\ ~Withdrawn(s, s.list[k], c) BY <1>3
    <2> QED BY <1>1, <1>4, <2>1
  <1>12. \A k \in DOMAIN s.list : k \in kept \/ gone(s.list[k])
    BY <1>3 DEF out, Leaving
  <1> HIDE DEF gone
  <1>13. \A i \in DOMAIN t.list : t.list[i] = s.list[Place(kept, i)] /\ Place(kept, i) \in kept
                                 /\ t.obj[t.list[i]] = s.obj[t.list[i]] /\ i \in 1 .. n
    BY <1>5, <1>6, <1>8, <1>11
  <1>14. Distinct(t.list)
    <2> SUFFICES ASSUME NEW i \in DOMAIN t.list, NEW j \in DOMAIN t.list, t.list[i] = t.list[j]
                 PROVE  i = j
      BY DEF Distinct
    <2>1. Place(kept, i) = Place(kept, j)
      BY <1>1, <1>11, <1>13 DEF Sound, Distinct
    <2>2. \A k \in kept : k \in Int BY <1>3
    <2>4. Place(kept, i) \in Int /\ Place(kept, j) \in Int BY <1>13, <2>2
    <2>3. ~(i < j) /\ ~(j < i) BY <1>5, <1>13, <2>1, <2>4
    <2> QED BY <1>5, <1>13, <2>3
  <1>15. Listed(t)
    <2> SUFFICES ASSUME NEW o \in Objects
                 PROVE  ~Free(t, o) <=> \E i \in DOMAIN t.list : t.list[i] = o
      BY DEF Listed
    <2>1. CASE gone(o)
      <3>1. \A i \in DOMAIN t.list : t.list[i] # o BY <2>1, <1>11, <1>13
      <3> QED BY <2>1, <3>1, <1>8
    <2>2. CASE ~gone(o)
      <3>1. Free(t, o) <=> Free(s, o) BY <2>2, <1>8 DEF Free
      <3>2. ASSUME NEW i \in DOMAIN t.list, t.list[i] = o
            PROVE  \E k \in DOMAIN s.list : s.list[k] = o
        BY <3>2, <1>11, <1>13
      <3>3. ASSUME NEW k \in DOMAIN s.list, s.list[k] = o
            PROVE  \E i \in DOMAIN t.list : t.list[i] = o
        <4>1. k \in kept BY <3>3, <2>2, <1>12
        <4>2. Rank(kept, k) \in DOMAIN t.list /\ t.list[Rank(kept, k)] = s.list[k]
          BY <4>1, <1>5, <1>6
        <4> QED BY <4>2, <3>3
      <3> QED BY <3>1, <3>2, <3>3, <1>1 DEF Sound, Listed
    <2> QED BY <2>1, <2>2
  <1>16. Owned(t) BY <1>1, <1>8 DEF Sound, Owned, Free
  <1>17. Sound(t) BY <1>1, <1>6, <1>10, <1>14, <1>15, <1>16 DEF Sound
  <1>18. ASSUME Resting(s) PROVE Resting(t)
    <2>1. \A i \in DOMAIN t.list : t.obj[t.list[i]].state = "queued"
      BY <1>11, <1>13, <1>18 DEF Resting
    <2> QED BY <2>1, <1>6, <1>17, <1>18 DEF Resting
  <1>19. ASSUME Busy(s) PROVE Busy(t)
    <2>1. CASE s.list = <<>>
      <3>1. \A i \in DOMAIN t.list : FALSE
        <4>1. DOMAIN s.list = {} BY <2>1
        <4> QED BY <4>1, <1>11, <1>13
      <3>2. t.list = <<>> BY <3>1, <1>5, <1>6
      <3> QED BY <2>1, <3>1, <3>2, <1>6, <1>17, <1>19 DEF Busy
    <2>2. CASE s.list # <<>>
      <3>1. 1 \in DOMAIN s.list /\ s.obj[s.list[1]].state = "processing"
        BY <2>2, <1>1, <1>19, HeadOfList DEF Busy
      <3>2. 1 \in kept BY <3>1, <1>3 DEF Withdrawn
      <3>3. \A i \in 1 .. n : Place(kept, i) = 1 <=> i = 1
        <4> TAKE i \in 1 .. n
        <4>1. Rank(kept, 1) \in 1 .. n /\ Place(kept, Rank(kept, 1)) = 1 BY <3>2, <1>5
        <4>2. 1 \in 1 .. n BY <4>1, <1>5
        <4>3. Place(kept, 1) \in 1 .. Len(s.list) BY <4>2, <1>3, <1>5
        <4>4. Place(kept, i) \in 1 .. Len(s.list) BY <1>3, <1>5
        <4>5. ~(1 < Rank(kept, 1)) BY <4>1, <4>2, <4>3, <1>3, <1>5
        <4>6. Rank(kept, 1) = 1 BY <4>1, <4>5, <1>5
        <4>7. 1 < i <=> 1 < Place(kept, i) BY <4>1, <4>2, <4>6, <1>5
        <4> QED BY <4>4, <4>7, <1>3, <1>5
      <3>4. \A i \in DOMAIN t.list : t.obj[t.list[i]].state = "processing" <=> i = 1
        BY <3>3, <1>11, <1>13, <1>19 DEF Busy
      <3>5. t.list # <<>>
        <4>1. Rank(kept, 1) \in DOMAIN t.list BY <3>2, <1>5, <1>6
        <4> QED BY <4>1
      <3> QED BY <3>4, <3>5, <2>2, <1>6, <1>17, <1>19 DEF Busy
    <2> QED BY <2>1, <2>2
  <1> QED BY <1>5, <1>6, <1>8, <1>18, <1>19 DEF t, out, gone

-----------------------------------------------------------------------------
(* The inductive invariant: the driver is busy with the head of its list,  *)
(* and what a client remembers of its last transfer is what the object it  *)
(* was given says, as long as the object is not another transfer's.        *)

LastType == [id : (0 .. PoolSize) \X (0 .. TokenMax - 1),
             fate : {"none", "pending", "complete", "error", "purged"}]

Typed ==
    /\ client \in [Clients -> [token : 0 .. TokenMax - 1, handler : BOOLEAN]]
    /\ exclusive \in BOOLEAN /\ token \in Tokens /\ closing \in 0 .. NumClients
    /\ last \in [Clients -> LastType]

OneClient == exclusive => \A c, d \in Clients : InUse(c) /\ InUse(d) => c = d

(* The object is still the one of the transfer id.                         *)
Current(s, id) == id[1] \in Objects /\ s.obj[id[1]].token = id[2]

(* What a client with handle h may remember of its last transfer.          *)
RememberedBy(r, h, s) ==
    /\ r.fate = "pending" =>
           Current(s, r.id) /\ ~Free(s, r.id[1]) /\ s.obj[r.id[1]].owner = h
    /\ r.fate # "pending" /\ Current(s, r.id) => Free(s, r.id[1])
    /\ r.fate \in {"complete", "error"} =>
           /\ r.id[1] \in Objects
           /\ Current(s, r.id) => s.obj[r.id[1]].event = r.fate

Remembered ==
    \A c \in Clients : /\ RememberedBy(last[c], ClientHandle(c), q)
                       /\ ~InUse(c) => last[c] = NoTransfer

Inv == Typed /\ Busy(q) /\ OneClient /\ Remembered

(* It stays right when the object stays as it is, or is another transfer's,*)
(* or when it is freed under a client that did not wait for it.            *)
LEMMA RecordKept ==
    ASSUME NEW r \in LastType, NEW h, NEW s, NEW t, RememberedBy(r, h, s),
           \A p \in Objects : r.id[1] = p =>
             \/ Same(s.obj[p], t.obj[p])
             \/ r.fate # "pending" /\ t.obj[p].token # r.id[2]
             \/ r.fate # "pending" /\ t.obj[p].token = s.obj[p].token /\ ~Free(s, p)
    PROVE  RememberedBy(r, h, t)
  <1>1. CASE r.id[1] \notin Objects
    BY <1>1 DEF RememberedBy, Current
  <1>2. CASE r.id[1] \in Objects
    <2> DEFINE p == r.id[1]
    <2>1. CASE Same(s.obj[p], t.obj[p])
      BY <1>2, <2>1 DEF RememberedBy, Current, Same, Free
    <2>2. CASE r.fate # "pending" /\ t.obj[p].token # r.id[2]
      BY <1>2, <2>2 DEF RememberedBy, Current
    <2>3. CASE r.fate # "pending" /\ t.obj[p].token = s.obj[p].token /\ ~Free(s, p)
      BY <1>2, <2>3 DEF RememberedBy, Current
    <2> QED BY <1>2, <2>1, <2>2, <2>3
  <1> QED BY <1>1, <1>2

LEMMA NextTokenType == token \in Tokens => NextToken \in Tokens
  BY I2cAssumption DEF NextToken, Tokens

LEMMA HandleType ==
    ASSUME Typed, NEW c \in Clients
    PROVE  /\ client[c].token \in 0 .. TokenMax - 1
           /\ InUse(c) => ClientHandle(c) \in Clients \X Tokens
           /\ \A d \in Clients : ClientHandle(c) = ClientHandle(d) => c = d
           /\ ClientHandle(c)[1] = c
  <1>1. client[c].token \in 0 .. TokenMax - 1 BY DEF Typed
  <1> QED BY <1>1, I2cAssumption DEF ClientHandle, InUse, Tokens

LEMMA NoTransferRecord ==
    ASSUME NEW h, NEW s
    PROVE  RememberedBy(NoTransfer, h, s) /\ NoTransfer \in LastType
  BY I2cAssumption DEF RememberedBy, Current, NoTransfer, NoHandle, Objects, LastType

LEMMA InitInv == Init => Inv
  <1> SUFFICES ASSUME Init PROVE Inv OBVIOUS
  <1>1. NoHandle \in (0 .. NumClients) \X (0 .. TokenMax - 1) BY I2cAssumption DEF NoHandle
  <1>2. Typed
    <2>1. 0 \in 0 .. TokenMax - 1 /\ 1 \in Tokens /\ 0 \in 0 .. NumClients
      BY I2cAssumption DEF Tokens
    <2>2. client \in [Clients -> [token : 0 .. TokenMax - 1, handler : BOOLEAN]]
      BY <2>1 DEF Init, NotInUse
    <2>3. last \in [Clients -> LastType] BY NoTransferRecord DEF Init
    <2> QED BY <2>1, <2>2, <2>3 DEF Init, Typed
  <1>3. q \in QType /\ q.list = <<>> /\ q.master = IdleMaster /\ ~q.refused
        /\ \A o \in Objects : Free(q, o)
    BY <1>1, I2cAssumption DEF Init, QType, ObjType, MasterType, IdleMaster, Objects, Free
  <1>4. Busy(q)
    BY <1>3 DEF Busy, Sound, Distinct, Listed, Owned, MasterInv, IdleMaster
  <1>5. OneClient BY DEF Init, OneClient
  <1>6. Remembered BY NoTransferRecord DEF Init, Remembered
  <1> QED BY <1>2, <1>4, <1>5, <1>6 DEF Inv

LEMMA OpenKeeps ==
    ASSUME Inv, NEW c \in Clients, NEW forItself \in BOOLEAN, NEW listens \in BOOLEAN,
           Open(c, forItself, listens)
    PROVE  Inv'
  <1>1. /\ ~InUse(c) /\ ~exclusive /\ exclusive' = forItself /\ token' = NextToken
        /\ forItself => \A d \in Clients : ~InUse(d)
        /\ client' = [client EXCEPT ![c] = [token |-> token, handler |-> listens]]
        /\ UNCHANGED <<q, closing, last>>
    BY DEF Open
  <1>2. Typed /\ Busy(q) /\ Remembered BY DEF Inv
  <1>3. token \in Tokens /\ token \in 0 .. TokenMax - 1 /\ token # 0
    BY <1>2, I2cAssumption DEF Typed, Tokens
  <1>4. \A d \in Clients \ {c} : client'[d] = client[d]
    BY <1>1, <1>2 DEF Typed
  <1>5. Typed'
    BY <1>1, <1>2, <1>3, NextTokenType DEF Typed
  <1>6. OneClient' BY <1>1, <1>4 DEF OneClient, InUse
  <1>7. Remembered'
    <2> SUFFICES ASSUME NEW d \in Clients
                 PROVE  /\ RememberedBy(last[d], ClientHandle(d)', q)
                        /\ ~InUse(d)' => last[d] = NoTransfer
      BY <1>1 DEF Remembered
    <2>1. CASE d = c
      BY <2>1, <1>1, <1>2, <1>3, NoTransferRecord DEF Remembered, InUse, Typed
    <2>2. CASE d # c
      BY <2>2, <1>2, <1>4 DEF Remembered, InUse, ClientHandle
    <2> QED BY <2>1, <2>2
  <1>8. Busy(q') BY <1>1, <1>2
  <1> QED BY <1>5, <1>6, <1>7, <1>8 DEF Inv

(* After a withdrawal by c, the others remember what they did.             *)
LEMMA OthersRemember ==
    ASSUME Typed, Remembered, NEW s, NEW t, NEW c \in Clients, NEW d \in Clients \ {c},
           RememberedBy(last[d], ClientHandle(d), s),
           \A p \in Objects :
             \/ Same(s.obj[p], t.obj[p])
             \/ /\ s.obj[p].owner = ClientHandle(c) /\ t.obj[p].token = s.obj[p].token
                /\ ~Free(s, p)
    PROVE  RememberedBy(last[d], ClientHandle(d), t)
  <1>1. last[d] \in LastType BY DEF Typed
  <1>2. ClientHandle(c) # ClientHandle(d) BY HandleType
  <1>3. \A p \in Objects : last[d].id[1] = p /\ s.obj[p].owner = ClientHandle(c) =>
            last[d].fate # "pending"
    BY <1>2 DEF RememberedBy
  <1> QED BY <1>1, <1>3, RecordKept

(* Its own record, if it is no longer waited for.                          *)
LEMMA OwnRecord ==
    ASSUME Typed, Remembered, NEW s, NEW t, NEW c \in Clients, NEW h, NEW r \in LastType,
           RememberedBy(last[c], h, s), r.id = last[c].id,
           r.fate = IF last[c].fate = "pending" THEN "purged" ELSE last[c].fate,
           \A p \in Objects :
             \/ Same(s.obj[p], t.obj[p]) /\ (last[c].fate = "pending" => p # last[c].id[1])
             \/ t.obj[p].token = s.obj[p].token /\ ~Free(s, p) /\ Free(t, p)
    PROVE  RememberedBy(r, h, t)
  <1>1. last[c] \in LastType BY DEF Typed
  <1>2. CASE last[c].fate = "pending"
    BY <1>2 DEF RememberedBy, Current
  <1>3. CASE last[c].fate # "pending"
    <2>1. r = last[c] BY <1>1, <1>3 DEF LastType
    <2> QED BY <1>1, <1>3, <2>1, RecordKept
  <1> QED BY <1>2, <1>3

(* A withdrawal frees what waits for the client and nothing else.          *)
LEMMA WithdrawFrees ==
    ASSUME NEW s, Busy(s) \/ Resting(s), NEW c, NEW p \in Objects
    PROVE  LET t == RemoveClientTransfers(s, c)
           IN  IF s.obj[p].owner = ClientHandle(c) /\ s.obj[p].state = "queued"
               THEN Free(t, p) /\ t.obj[p].token = s.obj[p].token
               ELSE t.obj[p] = s.obj[p]
  <1> DEFINE t == RemoveClientTransfers(s, c)
             gone(o) == \E k \in Leaving(s, c) : s.list[k] = o
  <1>1. \A o \in Objects : IF gone(o) THEN Free(t, o) /\ t.obj[o].token = s.obj[o].token
                           ELSE t.obj[o] = s.obj[o]
    BY WithdrawKeeps
  <1>2. Listed(s) BY DEF Busy, Resting, Sound
  <1>3. gone(p) => Withdrawn(s, p, c) BY DEF Leaving
  <1>4. ASSUME Withdrawn(s, p, c) PROVE gone(p)
    <2>1. ~Free(s, p) BY <1>4 DEF Withdrawn, Free
    <2>2. PICK k \in DOMAIN s.list : s.list[k] = p BY <1>2, <2>1 DEF Listed
    <2>3. k \in Leaving(s, c) BY <1>4, <2>2 DEF Leaving
    <2> QED BY <2>2, <2>3
  <1> HIDE DEF t, gone
  <1>5. Withdrawn(s, p, c) <=> s.obj[p].owner = ClientHandle(c) /\ s.obj[p].state = "queued"
    BY DEF Withdrawn
  <1> QED BY <1>1, <1>3, <1>4, <1>5 DEF t

LEMMA CloseBeginKeeps ==
    ASSUME Inv, NEW c \in Clients, CloseBegin(c)
    PROVE  Inv'
  <1>1. /\ q' = RemoveClientTransfers(q, c) /\ closing' = c
        /\ last' = [last EXCEPT ![c] = NoTransfer]
        /\ UNCHANGED <<client, exclusive, token>>
    BY DEF CloseBegin
  <1>2. Typed /\ Busy(q) /\ Remembered /\ OneClient BY DEF Inv
  <1>3. Busy(q') BY <1>1, <1>2, WithdrawKeeps
  <1>4. Typed'
    <2>1. c \in 0 .. NumClients BY I2cAssumption DEF Clients
    <2> QED BY <1>1, <1>2, <2>1, NoTransferRecord DEF Typed
  <1>5. OneClient' BY <1>1, <1>2 DEF OneClient, InUse
  <1>6. Remembered'
    <2> SUFFICES ASSUME NEW d \in Clients
                 PROVE  /\ RememberedBy(last'[d], ClientHandle(d), q')
                        /\ ~InUse(d) => last'[d] = NoTransfer
      BY <1>1 DEF Remembered, ClientHandle, InUse
    <2>1. CASE d = c BY <2>1, <1>1, <1>2, NoTransferRecord DEF Typed
    <2>2. CASE d # c
      <3>1. last'[d] = last[d] BY <2>2, <1>1, <1>2 DEF Typed
      <3>2. \A p \in Objects :
              \/ Same(q.obj[p], q'.obj[p])
              \/ /\ q.obj[p].owner = ClientHandle(c) /\ q'.obj[p].token = q.obj[p].token
                 /\ ~Free(q, p)
        BY <1>1, <1>2, WithdrawFrees DEF Same, Free
      <3>3. RememberedBy(last[d], ClientHandle(d), q) BY <1>2 DEF Remembered
      <3>4. RememberedBy(last[d], ClientHandle(d), q')
        BY <2>2, <1>2, <3>2, <3>3, OthersRemember
      <3> QED BY <3>1, <3>4, <1>2 DEF Remembered
    <2> QED BY <2>1, <2>2
  <1> QED BY <1>3, <1>4, <1>5, <1>6 DEF Inv

LEMMA CloseEndKeeps ==
    ASSUME Inv, CloseEnd
    PROVE  Inv'
  <1>1. /\ closing # 0 /\ client' = [client EXCEPT ![closing] = NotInUse]
        /\ last' = [last EXCEPT ![closing] = NoTransfer]
        /\ exclusive' = FALSE /\ closing' = 0 /\ UNCHANGED <<token, q>>
    BY DEF CloseEnd
  <1>2. Typed /\ Busy(q) /\ Remembered BY DEF Inv
  <1>3. closing \in Clients BY <1>1, <1>2, I2cAssumption DEF Typed, Clients
  <1>4. 0 \in 0 .. TokenMax - 1 /\ 0 \in 0 .. NumClients BY I2cAssumption
  <1>5. NotInUse \in [token : 0 .. TokenMax - 1, handler : BOOLEAN] BY <1>4 DEF NotInUse
  <1>6. Typed' BY <1>1, <1>2, <1>3, <1>4, <1>5, NoTransferRecord DEF Typed
  <1>7. OneClient' BY <1>1 DEF OneClient
  <1>8. \A d \in Clients \ {closing} : client'[d] = client[d] /\ last'[d] = last[d]
    BY <1>1, <1>2 DEF Typed
  <1>9. last'[closing] = NoTransfer BY <1>1, <1>2, <1>3 DEF Typed
  <1>10. Remembered'
    <2> SUFFICES ASSUME NEW d \in Clients
                 PROVE  /\ RememberedBy(last'[d], ClientHandle(d)', q)
                        /\ ~InUse(d)' => last'[d] = NoTransfer
      BY <1>1 DEF Remembered
    <2>1. CASE d = closing BY <2>1, <1>9, NoTransferRecord
    <2>2. CASE d # closing
      BY <2>2, <1>2, <1>8 DEF Remembered, InUse, ClientHandle
    <2> QED BY <2>1, <2>2
  <1>11. Busy(q') BY <1>1, <1>2
  <1> QED BY <1>6, <1>7, <1>10, <1>11 DEF Inv

(* The object of a new transfer, and the records of the others.            *)
LEMMA AddedRemembers ==
    ASSUME NEW r \in LastType, NEW h, NEW s, NEW t, NEW o \in Objects, RememberedBy(r, h, s),
           Free(s, o), t.obj[o].token = token, r.id # <<o, token>>,
           \A p \in Objects \ {o} : Same(s.obj[p], t.obj[p])
    PROVE  RememberedBy(r, h, t)
  <1>1. ASSUME r.id[1] = o
        PROVE  r.fate # "pending" /\ t.obj[o].token # r.id[2]
    <2>1. r.id = <<r.id[1], r.id[2]>> BY DEF LastType
    <2>2. r.fate # "pending" BY <1>1 DEF RememberedBy
    <2> QED BY <1>1, <2>1, <2>2
  <1> QED BY <1>1, RecordKept

LEMMA NewRemembered ==
    ASSUME NEW h, NEW t, NEW o \in Objects, ~Free(t, o), token \in Tokens,
           t.obj[o].token = token, t.obj[o].owner = h
    PROVE  LET r == [id |-> <<o, token>>, fate |-> "pending"]
           IN  r \in LastType /\ RememberedBy(r, h, t)
  <1> DEFINE r == [id |-> <<o, token>>, fate |-> "pending"]
  <1>1. o \in 0 .. PoolSize /\ token \in 0 .. TokenMax - 1
    BY I2cAssumption DEF Objects, Tokens
  <1>2. r \in LastType BY <1>1 DEF LastType
  <1>3. RememberedBy(r, h, t) BY DEF RememberedBy, Current
  <1> QED BY <1>2, <1>3

LEMMA TransferAddKeeps ==
    ASSUME Inv, NEW c \in Clients, NEW shape \in Shapes, TransferAdd(c, shape)
    PROVE  Inv'
  <1> DEFINE o == FirstFree(q)
  <1>1. /\ InUse(c) /\ FreeObjects(q) # {} /\ FreshTransfer(o)
        /\ q' = Added(q, c, shape) /\ token' = NextToken
        /\ last' = [last EXCEPT ![c] = [id |-> <<o, token>>, fate |-> "pending"]]
        /\ UNCHANGED <<client, exclusive, closing>>
    BY DEF TransferAdd
  <1>2. Typed /\ Busy(q) /\ Remembered /\ OneClient BY DEF Inv
  <1>3. token \in Tokens /\ client[c].token \in 0 .. TokenMax - 1 BY <1>2 DEF Typed
  <1>4. /\ Busy(q') /\ o \in Objects /\ Free(q, o) /\ ~Free(q', o)
        /\ q'.obj[o].token = token /\ q'.obj[o].owner = ClientHandle(c)
        /\ \A p \in Objects \ {o} : Same(q.obj[p], q'.obj[p])
    BY <1>1, <1>2, <1>3, AddedKeeps
  <1> HIDE DEF o
  <1>5. /\ [id |-> <<o, token>>, fate |-> "pending"] \in LastType
        /\ RememberedBy([id |-> <<o, token>>, fate |-> "pending"], ClientHandle(c), q')
    BY <1>3, <1>4, NewRemembered
  <1>6. Typed' BY <1>1, <1>2, <1>3, <1>5, NextTokenType DEF Typed
  <1>7. OneClient' BY <1>1, <1>2 DEF OneClient, InUse
  <1>8. Remembered'
    <2> SUFFICES ASSUME NEW d \in Clients
                 PROVE  /\ RememberedBy(last'[d], ClientHandle(d), q')
                        /\ ~InUse(d) => last'[d] = NoTransfer
      BY <1>1 DEF Remembered, ClientHandle, InUse
    <2>1. CASE d = c BY <2>1, <1>1, <1>2, <1>5 DEF Typed
    <2>2. CASE d # c
      <3>1. last'[d] = last[d] /\ last[d] \in LastType BY <2>2, <1>1, <1>2 DEF Typed
      <3>2. RememberedBy(last[d], ClientHandle(d), q) BY <1>2 DEF Remembered
      <3>3. last[d].id # <<o, token>> BY <1>1 DEF FreshTransfer
      <3>4. RememberedBy(last[d], ClientHandle(d), q')
        BY <1>4, <3>1, <3>2, <3>3, AddedRemembers
      <3> QED BY <3>1, <3>4, <1>2 DEF Remembered
    <2> QED BY <2>1, <2>2
  <1> QED BY <1>4, <1>6, <1>7, <1>8 DEF Inv

(* DRV_I2C_QueuePurge frees every transfer of the client and no other.     *)
Aborts(c) == /\ q.list # <<>> /\ q.obj[Head(q.list)].owner = ClientHandle(c)
             /\ q.obj[Head(q.list)].state = "processing"
Purged(c) == IF Aborts(c)
             THEN Initiated(RemoveClientTransfers(Removed([q EXCEPT !.master = IdleMaster]), c))
             ELSE RemoveClientTransfers(q, c)

LEMMA PurgedAborting ==
    ASSUME Busy(q), NEW c, Aborts(c)
    PROVE  LET o == Head(q.list)
               top == Removed([q EXCEPT !.master = IdleMaster])
               t == RemoveClientTransfers(top, c)
           IN  /\ Resting(top) /\ Resting(t)
               /\ top.list = Tail(q.list) /\ o \in Objects
               /\ Free(t, o) /\ t.obj[o].token = q.obj[o].token
               /\ Busy(Purged(c)) /\ Purged(c).list = t.list /\ Untouched(t, Purged(c))
               /\ \A p \in Objects \ {o} :
                     /\ q.obj[p].owner = ClientHandle(c) /\ ~Free(q, p) =>
                             Free(t, p) /\ t.obj[p].token = q.obj[p].token
                     /\ ~(q.obj[p].owner = ClientHandle(c) /\ ~Free(q, p)) => t.obj[p] = q.obj[p]
                     /\ top.obj[p] = q.obj[p]
               /\ ~Free(q, o)
  <1> DEFINE o == Head(q.list)
             i == [q EXCEPT !.master = IdleMaster]
             top == Removed(i)
             t == RemoveClientTransfers(top, c)
             event == q.obj[o].event
  <1>1. Ended(q, i, event) BY EndedByAbort DEF Aborts
  <1> HIDE DEF i, event
  <1>2. /\ Resting(top) /\ top.list = Tail(q.list) /\ o \in Objects
        /\ \A p \in Objects \ {o} : top.obj[p] = q.obj[p]
        /\ top.obj[o].state = "free" /\ top.obj[o].token = q.obj[o].token /\ ~Free(q, o)
    BY <1>1, RemovedResting DEF Aborts
  <1> HIDE DEF top
  <1>3. Resting(t) BY <1>2, WithdrawKeeps
  <1>4. \A p \in Objects :
          IF top.obj[p].owner = ClientHandle(c) /\ top.obj[p].state = "queued"
          THEN Free(t, p) /\ t.obj[p].token = top.obj[p].token
          ELSE t.obj[p] = top.obj[p]
    BY <1>2, WithdrawFrees
  <1> HIDE DEF t
  <1>5. Free(t, o) /\ t.obj[o].token = q.obj[o].token
    BY <1>2, <1>4 DEF Free
  <1>6. ASSUME NEW p \in Objects \ {o}, ~Free(q, p) PROVE q.obj[p].state = "queued"
    <2>1. PICK k \in DOMAIN top.list : top.list[k] = p
      BY <1>2, <1>6 DEF Resting, Sound, Listed, Free
    <2> QED BY <1>2, <1>6, <2>1 DEF Resting
  <1>7. ASSUME NEW p \in Objects \ {o}
        PROVE  /\ q.obj[p].owner = ClientHandle(c) /\ ~Free(q, p) =>
                       Free(t, p) /\ t.obj[p].token = q.obj[p].token
               /\ ~(q.obj[p].owner = ClientHandle(c) /\ ~Free(q, p)) => t.obj[p] = q.obj[p]
    BY <1>2, <1>4, <1>6 DEF Free
  <1>8. Purged(c) = Initiated(t) BY DEF Purged, t, top, i
  <1>9. Busy(Purged(c)) /\ Purged(c).list = t.list /\ Untouched(t, Purged(c))
    BY <1>3, <1>8, InitiatedBusy
  <1> QED BY <1>2, <1>3, <1>5, <1>7, <1>9 DEF t, top, i

LEMMA PurgedFrees ==
    ASSUME Busy(q), NEW c
    PROVE  /\ Busy(Purged(c))
           /\ \A p \in Objects :
                IF q.obj[p].owner = ClientHandle(c) /\ ~Free(q, p)
                THEN Free(Purged(c), p) /\ Purged(c).obj[p].token = q.obj[p].token
                ELSE Same(q.obj[p], Purged(c).obj[p])
  <1>1. CASE Aborts(c)
    <2> DEFINE o == Head(q.list)
               t == RemoveClientTransfers(Removed([q EXCEPT !.master = IdleMaster]), c)
    <2>1. /\ Free(t, o) /\ t.obj[o].token = q.obj[o].token /\ ~Free(q, o)
          /\ Busy(Purged(c)) /\ Untouched(t, Purged(c))
          /\ \A p \in Objects \ {o} :
                     /\ q.obj[p].owner = ClientHandle(c) /\ ~Free(q, p) =>
                             Free(t, p) /\ t.obj[p].token = q.obj[p].token
                     /\ ~(q.obj[p].owner = ClientHandle(c) /\ ~Free(q, p)) => t.obj[p] = q.obj[p]
      BY <1>1, PurgedAborting
    <2> HIDE DEF t
    <2>2. q.obj[o].owner = ClientHandle(c) BY <1>1 DEF Aborts
    <2> HIDE DEF o
    <2>3. \A p \in Objects : Same(t.obj[p], Purged(c).obj[p]) BY <2>1 DEF Untouched
    <2> QED BY <2>1, <2>2, <2>3 DEF Same, Free
  <1>2. CASE ~Aborts(c)
    <2>1. Purged(c) = RemoveClientTransfers(q, c) BY <1>2 DEF Purged
    <2>2. Busy(Purged(c)) BY <2>1, WithdrawKeeps
    <2>3. \A p \in Objects :
            IF q.obj[p].owner = ClientHandle(c) /\ q.obj[p].state = "queued"
            THEN Free(Purged(c), p) /\ Purged(c).obj[p].token = q.obj[p].token
            ELSE Purged(c).obj[p] = q.obj[p]
      BY <2>1, WithdrawFrees
    <2>4. ASSUME NEW p \in Objects, q.obj[p].owner = ClientHandle(c), ~Free(q, p)
          PROVE  q.obj[p].state = "queued"
      <3>1. q \in QType /\ Listed(q) /\ q.obj[p] \in ObjType BY DEF Busy, Sound, QType
      <3>2. PICK k \in DOMAIN q.list : q.list[k] = p BY <2>4, <3>1 DEF Listed
      <3>3. ASSUME q.obj[p].state = "processing" PROVE FALSE
        <4>1. k = 1 BY <3>2, <3>3 DEF Busy
        <4>2. q.list \in Seq(Objects) /\ q.list # <<>> BY <3>1, <3>2 DEF QType
        <4>3. Head(q.list) = p BY <3>2, <4>1, <4>2, HeadOfList
        <4> QED BY <2>4, <3>3, <4>2, <4>3, <1>2 DEF Aborts
      <3> QED BY <2>4, <3>1, <3>3 DEF Free, ObjType
    <2> QED BY <2>2, <2>3, <2>4 DEF Same, Free
  <1> QED BY <1>1, <1>2

LEMMA QueuePurgeKeeps ==
    ASSUME Inv, NEW c \in Clients, QueuePurge(c)
    PROVE  Inv'
  <1>1. /\ InUse(c) /\ q' = Purged(c)
        /\ last' = [last EXCEPT ![c].fate = IF @ = "pending" THEN "purged" ELSE @]
        /\ UNCHANGED <<client, exclusive, token, closing>>
    BY DEF QueuePurge, Purged, Aborts
  <1>2. Typed /\ Busy(q) /\ Remembered /\ OneClient BY DEF Inv
  <1>3. /\ Busy(q')
        /\ \A p \in Objects :
             IF q.obj[p].owner = ClientHandle(c) /\ ~Free(q, p)
             THEN Free(q', p) /\ q'.obj[p].token = q.obj[p].token
             ELSE Same(q.obj[p], q'.obj[p])
    BY <1>1, <1>2, PurgedFrees
  <1>4. last[c] \in LastType /\ last'[c] = [last[c] EXCEPT !.fate = IF @ = "pending" THEN "purged" ELSE @]
        /\ \A d \in Clients \ {c} : last'[d] = last[d]
    BY <1>1, <1>2 DEF Typed
  <1>5. /\ last'[c] \in LastType /\ last'[c].id = last[c].id
        /\ last'[c].fate = IF last[c].fate = "pending" THEN "purged" ELSE last[c].fate
    BY <1>4 DEF LastType
  <1>6. last' \in [Clients -> LastType]
    <2>1. last' = [d \in Clients |-> last'[d]] BY <1>1, <1>2 DEF Typed
    <2>2. \A d \in Clients : last'[d] \in LastType BY <1>2, <1>4, <1>5 DEF Typed
    <2> QED BY <2>1, <2>2
  <1>7. Typed' BY <1>1, <1>2, <1>6 DEF Typed
  <1>8. OneClient' BY <1>1, <1>2 DEF OneClient, InUse
  <1>9. Remembered'
    <2> SUFFICES ASSUME NEW d \in Clients
                 PROVE  /\ RememberedBy(last'[d], ClientHandle(d), q')
                        /\ ~InUse(d) => last'[d] = NoTransfer
      BY <1>1 DEF Remembered, ClientHandle, InUse
    <2>1. RememberedBy(last[d], ClientHandle(d), q) BY <1>2 DEF Remembered
    <2>2. CASE d = c
      <3>1. \A p \in Objects :
              \/ Same(q.obj[p], q'.obj[p]) /\ (last[c].fate = "pending" => p # last[c].id[1])
              \/ q'.obj[p].token = q.obj[p].token /\ ~Free(q, p) /\ Free(q', p)
        BY <1>3, <2>1, <2>2 DEF RememberedBy
      <3>2. RememberedBy(last'[c], ClientHandle(c), q')
        BY <1>2, <1>5, <2>1, <2>2, <3>1, OwnRecord
      <3> QED BY <1>1, <2>2, <3>2
    <2>3. CASE d # c
      <3>1. \A p \in Objects :
              \/ Same(q.obj[p], q'.obj[p])
              \/ /\ q.obj[p].owner = ClientHandle(c) /\ q'.obj[p].token = q.obj[p].token
                 /\ ~Free(q, p)
        BY <1>3
      <3>2. RememberedBy(last[d], ClientHandle(d), q')
        BY <2>1, <2>3, <3>1, <1>2, OthersRemember
      <3> QED BY <1>2, <1>4, <2>3, <3>2 DEF Remembered
    <2> QED BY <2>2, <2>3
  <1> QED BY <1>3, <1>7, <1>8, <1>9 DEF Inv

(* One byte on the bus leaves the transfer under way.                      *)
LEMMA MovedOn ==
    ASSUME NEW m \in MasterType, MasterInv(m), m.state # "idle", NEW outcome \in Outcomes,
           Moved(m, outcome).state \in {"read", "write"}
    PROVE  Moved(m, outcome) \in MasterType /\ MasterInv(Moved(m, outcome))
  <1>1. outcome = "ack" BY DEF Moved, MasterType, Outcomes
  <1>2. m.shape \in Nat \X Nat BY I2cAssumption DEF MasterType, NoBytes
  <1>3. CASE m.state = "write" /\ m.written < m.shape[1]
    BY <1>1, <1>2, <1>3 DEF Moved, MasterType, MasterInv
  <1>4. CASE m.state = "write" /\ ~(m.written < m.shape[1])
    BY <1>1, <1>2, <1>4 DEF Moved, MasterType, MasterInv
  <1>5. CASE m.state = "read"
    <2>1. Moved(m, outcome) = [m EXCEPT !.read = @ + 1, !.state = IF LastRead(m) THEN "done" ELSE @]
      BY <1>1, <1>5 DEF Moved
    <2>2. ~LastRead(m) BY <2>1, <1>5 DEF MasterType
    <2>3. Moved(m, outcome) = [m EXCEPT !.read = @ + 1] BY <2>1, <2>2 DEF MasterType
    <2> QED BY <1>5, <2>3 DEF MasterType, MasterInv
  <1> QED BY <1>3, <1>4, <1>5 DEF MasterType

(* A transfer without an error has moved all its bytes.                    *)
LEMMA MovedLast ==
    ASSUME NEW m \in MasterType, MasterInv(m), m.state # "idle", NEW outcome \in Outcomes,
           Moved(m, outcome).state \in {"done", "error"}, Moved(m, outcome).error = "none"
    PROVE  /\ m.written = m.shape[1]
           /\ \/ m.shape[2] = 0 /\ m.state = "write"
              \/ m.shape[2] = m.read + 1
  <1>1. outcome = "ack" BY DEF Moved, MasterType, Outcomes
  <1>2. m.shape \in Nat \X Nat BY I2cAssumption DEF MasterType, NoBytes
  <1>3. CASE m.state = "write" /\ m.written < m.shape[1]
    BY <1>1, <1>2, <1>3 DEF Moved, MasterType, MasterInv
  <1>4. CASE m.state = "write" /\ ~(m.written < m.shape[1])
    BY <1>1, <1>2, <1>4 DEF Moved, MasterType, MasterInv
  <1>5. CASE m.state = "read"
    BY <1>1, <1>2, <1>5 DEF Moved, MasterType, MasterInv, LastRead
  <1> QED BY <1>3, <1>4, <1>5 DEF MasterType

LEMMA ByteKeeps ==
    ASSUME Inv, NEW outcome \in Outcomes, Byte(outcome)
    PROVE  Inv' /\ q'.list = q.list /\ q'.obj = q.obj
  <1> DEFINE m == Moved(q.master, outcome)
  <1>1. /\ q.master.state # "idle" /\ m.state \in {"read", "write"}
        /\ q' = [q EXCEPT !.master = m]
        /\ UNCHANGED <<client, exclusive, token, closing, last>>
    BY DEF Byte
  <1>2. Typed /\ Busy(q) /\ Remembered /\ OneClient BY DEF Inv
  <1>3. q \in QType /\ q.master \in MasterType /\ MasterInv(q.master)
    BY <1>2 DEF Busy, Sound, QType
  <1>4. m \in MasterType /\ MasterInv(m) BY <1>1, <1>3, MovedOn
  <1> HIDE DEF m
  <1>5. q'.list = q.list /\ q'.obj = q.obj /\ q'.master = m /\ q'.refused = q.refused
        /\ q' \in QType
    BY <1>1, <1>3, <1>4 DEF QType
  <1>6. Busy(q')
    BY <1>1, <1>2, <1>4, <1>5 DEF Busy, Sound, Listed, Owned, Free
  <1>7. Typed' BY <1>1, <1>2 DEF Typed
  <1>8. OneClient' BY <1>1, <1>2 DEF OneClient, InUse
  <1>9. \A d \in Clients : RememberedBy(last[d], ClientHandle(d), q')
    BY <1>2, <1>5 DEF Remembered, RememberedBy, Current, Free
  <1>10. Remembered' BY <1>1, <1>2, <1>9 DEF Remembered, ClientHandle, InUse
  <1> QED BY <1>5, <1>6, <1>7, <1>8, <1>10 DEF Inv

-----------------------------------------------------------------------------
(* The end of a transfer.                                                  *)

(* The record of the transfer that ended says so, and no other changes.    *)
LEMMA FateRemembered ==
    ASSUME Typed, Remembered, NEW o \in Objects, ~Free(q, o), q.obj[o].token \in Tokens,
           NEW event \in {"complete", "error"}, NEW s,
           \A p \in Objects \ {o} : s.obj[p] = q.obj[p],
           s.obj[o].state = "free", s.obj[o].token = q.obj[o].token, s.obj[o].event = event,
           NEW d \in Clients
    PROVE  LET r == Fate(last, TransferHandle(q, o), event)[d]
           IN  /\ r \in LastType /\ r.id = last[d].id
               /\ RememberedBy(r, ClientHandle(d), s)
               /\ ~InUse(d) => r = NoTransfer
  <1> DEFINE r == Fate(last, TransferHandle(q, o), event)[d]
  <1>1. last[d] \in LastType /\ RememberedBy(last[d], ClientHandle(d), q)
        /\ (~InUse(d) => last[d] = NoTransfer)
    BY DEF Typed, Remembered
  <1>2. r = IF last[d].id = <<o, q.obj[o].token>> THEN [last[d] EXCEPT !.fate = event] ELSE last[d]
    BY DEF Fate, TransferHandle
  <1>3. o # 0 BY I2cAssumption DEF Objects
  <1> HIDE DEF r
  <1>4. CASE last[d].id = <<o, q.obj[o].token>>
    <2>1. r.fate = event /\ r.id = last[d].id /\ r \in LastType
      BY <1>1, <1>2, <1>4 DEF LastType
    <2>2. last[d] # NoTransfer BY <1>3, <1>4 DEF NoTransfer, NoHandle
    <2>3. RememberedBy(r, ClientHandle(d), s)
      BY <2>1, <1>4 DEF RememberedBy, Current, Free
    <2> QED BY <1>1, <2>1, <2>2, <2>3 DEF r
  <1>5. CASE last[d].id # <<o, q.obj[o].token>>
    <2>1. r = last[d] BY <1>2, <1>5
    <2>2. ASSUME last[d].id[1] = o
          PROVE  last[d].fate # "pending" /\ s.obj[o].token # last[d].id[2]
      <3>1. last[d].id = <<last[d].id[1], last[d].id[2]>> BY <1>1 DEF LastType
      <3>2. q.obj[o].token # last[d].id[2] BY <1>5, <2>2, <3>1
      <3> QED BY <1>1, <2>2, <3>2 DEF RememberedBy, Current
    <2>3. \A p \in Objects \ {o} : Same(q.obj[p], s.obj[p]) BY DEF Same
    <2>4. RememberedBy(last[d], ClientHandle(d), s) BY <1>1, <2>2, <2>3, RecordKept
    <2> QED BY <1>1, <2>1, <2>4 DEF r
  <1> QED BY <1>4, <1>5

(* The driver after the oldest transfer has ended, before the next starts. *)
AfterEnd(event) ==
    Removed([[q EXCEPT !.master = IdleMaster] EXCEPT !.obj[Head(q.list)].event = event])

LEMMA AfterEndIs ==
    ASSUME Busy(q), q.list # <<>>, NEW event \in {"complete", "error"}
    PROVE  LET o == Head(q.list)
               t == AfterEnd(event)
           IN  /\ Resting(t) /\ t.list = Tail(q.list) /\ o \in Objects
               /\ \A p \in Objects \ {o} : t.obj[p] = q.obj[p]
               /\ t.obj[o].state = "free" /\ t.obj[o].token = q.obj[o].token
               /\ t.obj[o].event = event
               /\ ~Free(q, o) /\ q.obj[o].token \in Tokens
               /\ q.obj[o].owner \in Clients \X Tokens
  <1> DEFINE i == [[q EXCEPT !.master = IdleMaster] EXCEPT !.obj[Head(q.list)].event = event]
  <1>1. Ended(q, i, event) BY EndedByEvent
  <1>2. AfterEnd(event) = Removed(i) BY DEF AfterEnd
  <1> HIDE DEF i
  <1> QED BY <1>1, <1>2, RemovedResting DEF Busy, Sound, Owned

(* What an interrupt that ends a transfer does.                            *)
LEMMA TransferEndIs ==
    ASSUME Inv, NEW outcome \in Outcomes, NEW shape \in Shapes \cup {NoBytes},
           TransferEnd(outcome, shape)
    PROVE  /\ q.list # <<>> /\ UNCHANGED <<client, exclusive, closing>>
           /\ \E event \in {"complete", "error"} :
                /\ event = "complete" =>
                       /\ q.master.written = q.master.shape[1]
                       /\ \/ q.master.shape[2] = 0 /\ q.master.state = "write"
                          \/ q.master.shape[2] = q.master.read + 1
                /\ TransferEnded(Head(q.list), event, [q EXCEPT !.master = IdleMaster], shape)
  <1> DEFINE m == Moved(q.master, outcome)
             event == IF m.error = "none" THEN "complete" ELSE "error"
  <1>1. Busy(q) /\ q.master \in MasterType /\ MasterInv(q.master)
    BY DEF Inv, Busy, Sound, QType
  <1>2. /\ q.master.state # "idle" /\ m.state \in {"done", "error"}
        /\ UNCHANGED <<client, exclusive, closing>>
        /\ TransferEnded(Head(q.list), event, [q EXCEPT !.master = IdleMaster], shape)
    BY DEF TransferEnd
  <1> HIDE DEF m
  <1>3. event = "complete" => m.error = "none" OBVIOUS
  <1>4. event \in {"complete", "error"} OBVIOUS
  <1>5. m.error = "none" =>
          /\ q.master.written = q.master.shape[1]
          /\ \/ q.master.shape[2] = 0 /\ q.master.state = "write"
             \/ q.master.shape[2] = q.master.read + 1
    BY <1>1, <1>2, MovedLast DEF m
  <1>6. q.list # <<>> BY <1>1, <1>2 DEF Busy
  <1> HIDE DEF event
  <1> QED BY <1>2, <1>3, <1>4, <1>5, <1>6

(* A client that is told of the end and adds nothing.                      *)
LEMMA ToldKeeps ==
    ASSUME Inv, q.list # <<>>, NEW event \in {"complete", "error"},
           q' = Initiated(AfterEnd(event)),
           last' = Fate(last, TransferHandle(q, Head(q.list)), event),
           UNCHANGED <<client, exclusive, closing, token>>
    PROVE  Inv'
  <1> DEFINE o == Head(q.list)
             s == AfterEnd(event)
             r(d) == Fate(last, TransferHandle(q, o), event)[d]
  <1>1. Typed /\ Busy(q) /\ Remembered /\ OneClient BY DEF Inv
  <1>2. /\ Resting(s) /\ o \in Objects
        /\ \A p \in Objects \ {o} : s.obj[p] = q.obj[p]
        /\ s.obj[o].state = "free" /\ s.obj[o].token = q.obj[o].token
        /\ s.obj[o].event = event /\ ~Free(q, o) /\ q.obj[o].token \in Tokens
    BY <1>1, AfterEndIs
  <1> HIDE DEF o, s
  <1>3. Busy(q') /\ Untouched(s, q') BY <1>2, InitiatedBusy DEF s
  <1>4. ASSUME NEW d \in Clients
        PROVE  /\ r(d) \in LastType /\ RememberedBy(r(d), ClientHandle(d), s)
               /\ ~InUse(d) => r(d) = NoTransfer
    BY <1>1, <1>2, FateRemembered
  <1>5. last' = [d \in Clients |-> r(d)] /\ \A d \in Clients : last'[d] = r(d)
    BY DEF Fate, o
  <1> HIDE DEF r
  <1>6. Typed' BY <1>1, <1>4, <1>5 DEF Typed
  <1>7. OneClient' BY <1>1 DEF OneClient, InUse
  <1>8. \A d \in Clients : RememberedBy(last'[d], ClientHandle(d), q')
    <2> TAKE d \in Clients
    <2>1. \A p \in Objects : Same(s.obj[p], q'.obj[p]) BY <1>3 DEF Untouched
    <2> QED BY <1>4, <1>5, <2>1, RecordKept
  <1>9. Remembered' BY <1>4, <1>5, <1>8 DEF Remembered, ClientHandle, InUse
  <1> QED BY <1>3, <1>6, <1>7, <1>9 DEF Inv

(* A client whose handler adds a transfer.                                 *)
LEMMA ToldAndAddedKeeps ==
    ASSUME Inv, q.list # <<>>, NEW event \in {"complete", "error"},
           NEW c \in Clients, InUse(c), NEW shape \in Shapes,
           FreshTransfer(FirstFree(AfterEnd(event))),
           q' = Initiated(Added(AfterEnd(event), c, shape)),
           last' = [Fate(last, TransferHandle(q, Head(q.list)), event) EXCEPT
                      ![c] = [id |-> <<FirstFree(AfterEnd(event)), token>>, fate |-> "pending"]],
           token' = NextToken, UNCHANGED <<client, exclusive, closing>>
    PROVE  /\ Inv'
           /\ q'.list = Append(Tail(q.list), FirstFree(AfterEnd(event)))
           /\ LET n == FirstFree(AfterEnd(event))
              IN  /\ n \in Objects /\ Free(AfterEnd(event), n)
                  /\ q'.obj[n].token = token /\ q'.obj[n].owner = ClientHandle(c)
                  /\ \A p \in Objects \ {n} : Same(AfterEnd(event).obj[p], q'.obj[p])
  <1> DEFINE o == Head(q.list)
             s == AfterEnd(event)
             n == FirstFree(s)
             t == Added(s, c, shape)
             r(d) == Fate(last, TransferHandle(q, o), event)[d]
             new == [id |-> <<n, token>>, fate |-> "pending"]
  <1>1. Typed /\ Busy(q) /\ Remembered /\ OneClient BY DEF Inv
  <1>2. /\ Resting(s) /\ o \in Objects /\ s.list = Tail(q.list)
        /\ \A p \in Objects \ {o} : s.obj[p] = q.obj[p]
        /\ s.obj[o].state = "free" /\ s.obj[o].token = q.obj[o].token
        /\ s.obj[o].event = event /\ ~Free(q, o) /\ q.obj[o].token \in Tokens
    BY <1>1, AfterEndIs
  <1>3. token \in Tokens /\ client[c].token \in 0 .. TokenMax - 1 BY <1>1 DEF Typed
  <1> HIDE DEF o, s
  <1>4. FreeObjects(s) # {} BY <1>2 DEF FreeObjects
  <1>5. /\ Busy(t) \/ Resting(t)
        /\ n \in Objects /\ Free(s, n) /\ ~Free(t, n) /\ t.list = Append(s.list, n)
        /\ t.obj[n].token = token /\ t.obj[n].owner = ClientHandle(c)
        /\ \A p \in Objects \ {n} : Same(s.obj[p], t.obj[p])
    BY <1>2, <1>3, <1>4, AddedKeeps
  <1> HIDE DEF t, n
  <1>6. Busy(q') /\ Untouched(t, q') /\ q'.list = t.list
    BY <1>5, InitiatedBusy DEF t, s
  <1>7. /\ ~Free(q', n) /\ q'.obj[n].token = token /\ q'.obj[n].owner = ClientHandle(c)
        /\ \A p \in Objects \ {n} : Same(s.obj[p], q'.obj[p])
    BY <1>5, <1>6 DEF Untouched, Same, Free
  <1>8. new \in LastType /\ RememberedBy(new, ClientHandle(c), q')
    BY <1>3, <1>5, <1>7, NewRemembered
  <1>9. ASSUME NEW d \in Clients
        PROVE  /\ r(d) \in LastType /\ RememberedBy(r(d), ClientHandle(d), s)
               /\ r(d).id = last[d].id
               /\ ~InUse(d) => r(d) = NoTransfer
    BY <1>1, <1>2, FateRemembered
  <1>10. /\ last' = [d \in Clients |-> IF d = c THEN new ELSE r(d)]
         /\ \A d \in Clients : last'[d] = IF d = c THEN new ELSE r(d)
    BY DEF Fate, o, n, s
  <1> HIDE DEF r, new
  <1>11. Typed' BY <1>1, <1>8, <1>9, <1>10, NextTokenType DEF Typed
  <1>12. OneClient' BY <1>1 DEF OneClient, InUse
  <1>13. ASSUME NEW d \in Clients \ {c} PROVE RememberedBy(r(d), ClientHandle(d), q')
    <2>1. r(d).id # <<n, token>> BY <1>9 DEF FreshTransfer, n, s
    <2> QED BY <1>5, <1>7, <1>9, <2>1, AddedRemembers
  <1>14. Remembered' BY <1>8, <1>9, <1>10, <1>13 DEF Remembered, ClientHandle, InUse
  <1>15. Inv' BY <1>6, <1>11, <1>12, <1>14 DEF Inv
  <1> QED BY <1>2, <1>5, <1>6, <1>7, <1>15 DEF s, n

(* A client that has closed meanwhile is not told.                         *)
LEMMA NotToldKeeps ==
    ASSUME Inv, q.list # <<>>, ~Alive(q.obj[Head(q.list)].owner),
           q' = Initiated(Removed([q EXCEPT !.master = IdleMaster])),
           UNCHANGED <<client, exclusive, closing, token, last>>
    PROVE  Inv' /\ q'.list = Tail(q.list)
           /\ \A p \in Objects \ {Head(q.list)} : Same(q.obj[p], q'.obj[p])
  <1> DEFINE o == Head(q.list)
             i == [q EXCEPT !.master = IdleMaster]
             s == Removed(i)
             event == q.obj[o].event
  <1>1. Typed /\ Busy(q) /\ Remembered /\ OneClient BY DEF Inv
  <1>2. Ended(q, i, event) BY <1>1, EndedByAbort
  <1> HIDE DEF i, event
  <1>3. /\ Resting(s) /\ s.list = Tail(q.list) /\ o \in Objects
        /\ \A p \in Objects \ {o} : s.obj[p] = q.obj[p]
        /\ s.obj[o].state = "free" /\ s.obj[o].token = q.obj[o].token /\ ~Free(q, o)
    BY <1>1, <1>2, RemovedResting
  <1> HIDE DEF s
  <1>4. Busy(q') /\ Untouched(s, q') /\ q'.list = s.list
    BY <1>3, InitiatedBusy DEF s, i
  <1>5. /\ q'.obj[o].token = q.obj[o].token
        /\ \A p \in Objects \ {o} : Same(q.obj[p], q'.obj[p])
    BY <1>3, <1>4 DEF Untouched, Same
  <1>6. Typed' BY <1>1 DEF Typed
  <1>7. OneClient' BY <1>1 DEF OneClient, InUse
  <1>8. ASSUME NEW d \in Clients PROVE RememberedBy(last[d], ClientHandle(d), q')
    <2>1. last[d] \in LastType /\ RememberedBy(last[d], ClientHandle(d), q)
      BY <1>1 DEF Typed, Remembered
    <2>2. last[d].id[1] = o => last[d].fate # "pending"
      <3>1. ASSUME last[d].id[1] = o, last[d].fate = "pending" PROVE FALSE
        <4>1. q.obj[o].owner = ClientHandle(d) BY <2>1, <3>1 DEF RememberedBy
        <4> QED BY <4>1 DEF ClientHandle, Alive
      <3> QED BY <3>1
    <2> QED BY <1>3, <1>5, <2>1, <2>2, RecordKept
  <1>9. Remembered' BY <1>1, <1>8 DEF Remembered, ClientHandle, InUse
  <1>10. Inv' BY <1>4, <1>6, <1>7, <1>9 DEF Inv
  <1> QED BY <1>3, <1>4, <1>5, <1>10

(* What becomes of the driver at the end of a transfer.                    *)
Ends(event, shape) ==
    LET o == Head(q.list)
        c == q.obj[o].owner[1]
        s == AfterEnd(event)
    IN  /\ q.list # <<>> /\ UNCHANGED <<client, exclusive, closing>>
        /\ \/ /\ Alive(q.obj[o].owner) /\ c \in Clients
              /\ InUse(c) /\ ClientHandle(c) = q.obj[o].owner
              /\ told' = IF client[c].handler
                         THEN [to |-> ClientHandle(c), id |-> TransferHandle(q, o), event |-> event]
                         ELSE Silence
              /\ \/ /\ q' = Initiated(s) /\ UNCHANGED token
                    /\ last' = Fate(last, TransferHandle(q, o), event)
                 \/ /\ shape \in Shapes /\ client[c].handler
                    /\ FreshTransfer(FirstFree(s))
                    /\ q' = Initiated(Added(s, c, shape))
                    /\ last' = [Fate(last, TransferHandle(q, o), event) EXCEPT
                                 ![c] = [id |-> <<FirstFree(s), token>>, fate |-> "pending"]]
                    /\ token' = NextToken
           \/ /\ ~Alive(q.obj[o].owner) /\ told' = Silence
              /\ q' = Initiated(Removed([q EXCEPT !.master = IdleMaster]))
              /\ UNCHANGED <<token, last>>

LEMMA TransferEndEnds ==
    ASSUME Inv, NEW outcome \in Outcomes, NEW shape \in Shapes \cup {NoBytes},
           TransferEnd(outcome, shape)
    PROVE  \E event \in {"complete", "error"} :
                /\ event = "complete" =>
                       /\ q.master.written = q.master.shape[1]
                       /\ \/ q.master.shape[2] = 0 /\ q.master.state = "write"
                          \/ q.master.shape[2] = q.master.read + 1
                /\ Ends(event, shape)
  <1> DEFINE o == Head(q.list)
             c == q.obj[o].owner[1]
             idle == [q EXCEPT !.master = IdleMaster]
  <1>1. q.list # <<>> /\ UNCHANGED <<client, exclusive, closing>>
    BY TransferEndIs
  <1>2. PICK event \in {"complete", "error"} :
                /\ event = "complete" =>
                       /\ q.master.written = q.master.shape[1]
                       /\ \/ q.master.shape[2] = 0 /\ q.master.state = "write"
                          \/ q.master.shape[2] = q.master.read + 1
                /\ TransferEnded(Head(q.list), event, idle, shape)
    BY TransferEndIs
  <1>3. q.obj[o].owner \in Clients \X Tokens BY <1>1, AfterEndIs DEF Inv
  <1>4. c \in Clients /\ q.obj[o].owner = <<c, q.obj[o].owner[2]>> /\ q.obj[o].owner[2] # 0
    BY <1>3 DEF Tokens
  <1>5. CASE Alive(q.obj[o].owner)
    <2>1. Told(o, event, idle, shape) BY <1>2, <1>5 DEF TransferEnded
    <2>2. ClientHandle(c) = q.obj[o].owner /\ InUse(c)
      BY <1>4, <1>5 DEF Alive, ClientHandle, InUse
    <2>3. Removed([idle EXCEPT !.obj[o].event = event]) = AfterEnd(event) BY DEF AfterEnd
    <2>4. /\ told' = IF client[c].handler
                     THEN [to |-> ClientHandle(c), id |-> TransferHandle(q, o), event |-> event]
                     ELSE Silence
          /\ \/ /\ q' = Initiated(AfterEnd(event)) /\ UNCHANGED token
                /\ last' = Fate(last, TransferHandle(q, o), event)
             \/ /\ shape # NoBytes /\ client[c].handler
                /\ FreshTransfer(FirstFree(AfterEnd(event)))
                /\ q' = Initiated(Added(AfterEnd(event), c, shape))
                /\ last' = [Fate(last, TransferHandle(q, o), event) EXCEPT
                             ![c] = [id |-> <<FirstFree(AfterEnd(event)), token>>, fate |-> "pending"]]
                /\ token' = NextToken
      <3> HIDE DEF o, idle
      <3> QED BY <2>1, <2>3 DEF Told, c
    <2> QED BY <1>1, <1>2, <1>4, <1>5, <2>2, <2>4 DEF Ends
  <1>6. CASE ~Alive(q.obj[o].owner)
    <2>1. told' = Silence /\ q' = Initiated(Removed(idle)) /\ UNCHANGED <<token, last>>
      BY <1>2, <1>6 DEF TransferEnded
    <2> QED BY <1>1, <1>2, <1>6, <2>1 DEF Ends
  <1> QED BY <1>5, <1>6

LEMMA EndsKeeps ==
    ASSUME Inv, NEW event \in {"complete", "error"}, NEW shape, Ends(event, shape)
    PROVE  Inv'
  <1> DEFINE o == Head(q.list)
             c == q.obj[o].owner[1]
             s == AfterEnd(event)
  <1>1. CASE /\ q' = Initiated(s) /\ UNCHANGED token
             /\ last' = Fate(last, TransferHandle(q, o), event)
    BY <1>1, ToldKeeps DEF Ends
  <1>2. CASE /\ shape \in Shapes /\ c \in Clients /\ InUse(c)
             /\ FreshTransfer(FirstFree(s))
             /\ q' = Initiated(Added(s, c, shape))
             /\ last' = [Fate(last, TransferHandle(q, o), event) EXCEPT
                          ![c] = [id |-> <<FirstFree(s), token>>, fate |-> "pending"]]
             /\ token' = NextToken
    BY <1>2, ToldAndAddedKeeps DEF Ends
  <1>3. CASE /\ ~Alive(q.obj[o].owner)
             /\ q' = Initiated(Removed([q EXCEPT !.master = IdleMaster]))
             /\ UNCHANGED <<token, last>>
    BY <1>3, NotToldKeeps DEF Ends
  <1> QED BY <1>1, <1>2, <1>3 DEF Ends

LEMMA StutterKeeps == Inv /\ UNCHANGED vars => Inv'
  BY DEF vars, Inv, Typed, OneClient, InUse, Remembered, ClientHandle

-----------------------------------------------------------------------------
(* The invariant holds.                                                    *)
LEMMA NextKeeps == Inv /\ [Next]_vars => Inv'
  <1> SUFFICES ASSUME Inv, [Next]_vars PROVE Inv' OBVIOUS
  <1>1. ASSUME NEW c \in Clients, NEW forItself \in BOOLEAN, NEW listens \in BOOLEAN,
               Open(c, forItself, listens)
        PROVE  Inv'
    BY <1>1, OpenKeeps
  <1>2. ASSUME NEW c \in Clients, CloseBegin(c) PROVE Inv' BY <1>2, CloseBeginKeeps
  <1>3. ASSUME NEW c \in Clients, QueuePurge(c) PROVE Inv' BY <1>3, QueuePurgeKeeps
  <1>4. ASSUME NEW c \in Clients, NEW shape \in Shapes, TransferAdd(c, shape) PROVE Inv'
    BY <1>4, TransferAddKeeps
  <1>5. CASE CloseEnd BY <1>5, CloseEndKeeps
  <1>6. ASSUME NEW outcome \in Outcomes, Byte(outcome) PROVE Inv' BY <1>6, ByteKeeps
  <1>7. ASSUME NEW outcome \in Outcomes, NEW shape \in Shapes \cup {NoBytes},
               TransferEnd(outcome, shape)
        PROVE  Inv'
    <2>1. PICK event \in {"complete", "error"} : Ends(event, shape)
      BY <1>7, TransferEndEnds
    <2> QED BY <2>1, EndsKeeps
  <1>8. CASE UNCHANGED vars BY <1>8, StutterKeeps
  <1> QED BY <1>1, <1>2, <1>3, <1>4, <1>5, <1>6, <1>7, <1>8 DEF Next, Call, Interrupt

LEMMA InvAlways == Spec => []Inv
  <1> QED BY InitInv, NextKeeps, PTL DEF Spec

-----------------------------------------------------------------------------
(* The properties.                                                         *)

(* The variables of the driver always have their types.                    *)
THEOREM I2cTypeCorrect == Spec => []TypeOK
  <1>1. Inv => TypeOK
    <2> SUFFICES ASSUME Inv PROVE TypeOK OBVIOUS
    <2>1. q \in QType /\ Typed BY DEF Inv, Busy, Sound
    <2>2. q.obj \in [Objects -> ObjType] /\ q.list \in Seq(Objects) /\ q.master \in MasterType
      BY <2>1 DEF QType
    <2>3. \A c \in Clients : last[c].fate \in {"none", "pending", "complete", "error", "purged"}
      BY <2>1 DEF Typed, LastType
    <2> QED BY <2>1, <2>2, <2>3 DEF TypeOK, Typed, MasterType
  <1> QED BY <1>1, InvAlways, PTL

(* The list holds each transfer object that is not free, once, and the     *)
(* master is busy with the oldest (lDRV_I2C_NextTransferInitiate,          *)
(* lDRV_I2C_RemoveTransferObjFromList, DRV_I2C_QueuePurge).                *)
THEOREM ListMatchesBusAlways == Spec => []ListMatchesBus
  <1>1. Inv => ListMatchesBus
    BY DEF Inv, Busy, Sound, Distinct, Listed, Free, OneClient, ListMatchesBus
  <1> QED BY <1>1, InvAlways, PTL

(* DRV_I2C_TransferStatusGet tells a client what became of its transfer.   *)
THEOREM StatusTruthfulAlways == Spec => []StatusTruthful
  <1>1. Inv => StatusTruthful
    <2> SUFFICES ASSUME Inv, NEW c \in Clients
                 PROVE  \/ last[c].fate = "pending" /\ TransferStatus(last[c].id) = "pending"
                        \/ last[c].fate \in {"complete", "error"}
                             /\ TransferStatus(last[c].id) \in {last[c].fate, "expired"}
                        \/ last[c].fate \in {"none", "purged"}
      BY DEF StatusTruthful
    <2> DEFINE r == last[c]
               o == r.id[1]
    <2>1. r \in LastType /\ RememberedBy(r, ClientHandle(c), q) /\ Owned(q)
      BY DEF Inv, Typed, Remembered, Busy, Sound
    <2>2. r.id = <<o, r.id[2]>> /\ r.fate \in {"none", "pending", "complete", "error", "purged"}
      BY <2>1 DEF LastType
    <2> HIDE DEF r, o
    <2>3. q.obj[o].token = r.id[2] => TransferStatus(r.id) = q.obj[o].event
      BY <2>2 DEF TransferStatus, TransferHandle, o
    <2>4. q.obj[o].token # r.id[2] => TransferStatus(r.id) = "expired"
      BY <2>2 DEF TransferStatus, TransferHandle, o
    <2>5. CASE r.fate = "pending"
      BY <2>1, <2>3, <2>5 DEF RememberedBy, Current, Owned, o, r
    <2>6. CASE r.fate \in {"complete", "error"}
      BY <2>1, <2>3, <2>4, <2>6 DEF RememberedBy, Current, o, r
    <2> QED BY <2>2, <2>5, <2>6 DEF r
  <1> QED BY <1>1, InvAlways, PTL

(* A transfer is told COMPLETE only when all its bytes were moved          *)
(* (SERCOM0_I2C_InterruptHandler).                                         *)
THEOREM CompleteMeansWholeAlways == Spec => CompleteMeansWhole
  <1> DEFINE Whole == /\ q.master.written = q.master.shape[1]
                      /\ \/ q.master.shape[2] = 0 /\ q.master.state = "write"
                         \/ q.master.shape[2] = q.master.read + 1
             Step == told'.event = "complete" => Whole
  <1>1. Inv /\ [Next]_vars => [Step]_vars
    <2> SUFFICES ASSUME Inv, Next PROVE Step OBVIOUS
    <2>1. ASSUME told' = Silence PROVE Step BY <2>1 DEF Silence
    <2>2. ASSUME NEW outcome \in Outcomes, NEW shape \in Shapes \cup {NoBytes},
                 TransferEnd(outcome, shape)
          PROVE  Step
      <3>1. PICK event \in {"complete", "error"} :
              (event = "complete" => Whole) /\ Ends(event, shape)
        BY <2>2, TransferEndEnds
      <3> HIDE DEF Whole
      <3> DEFINE o == Head(q.list)
                 report == [to |-> ClientHandle(q.obj[o].owner[1]), id |-> TransferHandle(q, o),
                            event |-> event]
      <3>2. told' = Silence \/ told' = report BY <3>1 DEF Ends
      <3>3. report.event = event OBVIOUS
      <3> HIDE DEF report
      <3> QED BY <3>1, <3>2, <3>3, <2>1
    <2>3. CASE Call \/ \E outcome \in Outcomes : Byte(outcome)
      <3>1. told' = Silence
        BY <2>3 DEF Call, Open, CloseBegin, CloseEnd, QueuePurge, TransferAdd, Byte
      <3> QED BY <2>1, <3>1
    <2> QED BY <2>2, <2>3 DEF Next, Interrupt
  <1> QED BY <1>1, InvAlways, PTL DEF Spec, CompleteMeansWhole

-----------------------------------------------------------------------------
(* The driver implements I2cBus.                                           *)

LEMMA SameSequence ==
    ASSUME NEW S, NEW T, NEW x \in Seq(S), NEW y \in Seq(T), Len(x) = Len(y),
           \A k \in 1 .. Len(x) : x[k] = y[k]
    PROVE  x = y
  <1>1. x = [k \in 1 .. Len(x) |-> x[k]] /\ y = [k \in 1 .. Len(y) |-> y[k]] OBVIOUS
  <1> QED BY <1>1

Entry(s, o) == [by |-> s.obj[o].owner, id |-> TransferHandle(s, o)]
Entries(s) == {Entry(s, o) : o \in Objects}

LEMMA WaitingIs ==
    ASSUME NEW s, s.list \in Seq(Objects)
    PROVE  /\ Waiting(s) \in Seq(Entries(s)) /\ Len(Waiting(s)) = Len(s.list)
           /\ DOMAIN Waiting(s) = DOMAIN s.list /\ DOMAIN s.list = 1 .. Len(s.list)
           /\ Len(s.list) \in Nat
           /\ \A k \in DOMAIN s.list : Waiting(s)[k] = Entry(s, s.list[k]) /\ s.list[k] \in Objects
           /\ s.list = <<>> <=> Waiting(s) = <<>>
  <1>1. DOMAIN s.list = 1 .. Len(s.list) /\ Len(s.list) \in Nat
        /\ \A k \in DOMAIN s.list : s.list[k] \in Objects
    OBVIOUS
  <1>2. Waiting(s) = [k \in 1 .. Len(s.list) |-> Entry(s, s.list[k])]
    BY <1>1 DEF Waiting, Entry
  <1>3. \A k \in 1 .. Len(s.list) : Entry(s, s.list[k]) \in Entries(s) BY <1>1 DEF Entries
  <1> HIDE DEF Waiting
  <1>4. Waiting(s) \in Seq(Entries(s)) /\ Len(Waiting(s)) = Len(s.list)
        /\ DOMAIN Waiting(s) = 1 .. Len(s.list)
    BY <1>1, <1>2, <1>3
  <1>5. s.list = <<>> <=> Waiting(s) = <<>> BY <1>1, <1>4
  <1> QED BY <1>1, <1>2, <1>4, <1>5

LEMMA SameEntry ==
    ASSUME NEW s, NEW t, NEW o, Same(s.obj[o], t.obj[o])
    PROVE  Entry(s, o) = Entry(t, o)
  BY DEF Same, Entry, TransferHandle

LEMMA EntryId ==
    ASSUME NEW s, NEW t, NEW o, NEW p, o # p
    PROVE  Entry(s, o).id # Entry(t, p).id
  BY DEF Entry, TransferHandle

LEMMA EntryBy ==
    ASSUME NEW s, NEW o
    PROVE  Entry(s, o).by = s.obj[o].owner /\ Entry(s, o).id = TransferHandle(s, o)
  BY DEF Entry

LEMMA WaitingAppended ==
    ASSUME NEW s, NEW t, s.list \in Seq(Objects), NEW n \in Objects,
           t.list = Append(s.list, n),
           \A k \in DOMAIN s.list : Same(s.obj[s.list[k]], t.obj[s.list[k]])
    PROVE  Waiting(t) = Append(Waiting(s), Entry(t, n))
  <1> DEFINE e == Entry(t, n)
             S == Entries(s) \cup {e}
  <1>1. /\ t.list \in Seq(Objects) /\ Len(t.list) = Len(s.list) + 1 /\ Len(s.list) \in Nat
        /\ DOMAIN t.list = 1 .. Len(s.list) + 1 /\ DOMAIN s.list = 1 .. Len(s.list)
        /\ \A k \in 1 .. Len(s.list) : t.list[k] = s.list[k]
        /\ t.list[Len(s.list) + 1] = n
    BY EndOfList
  <1>2. /\ Waiting(s) \in Seq(Entries(s)) /\ Len(Waiting(s)) = Len(s.list)
        /\ \A k \in DOMAIN s.list : Waiting(s)[k] = Entry(s, s.list[k])
    BY WaitingIs
  <1>3. Waiting(s) \in Seq(S) /\ e \in S BY <1>2
  <1>4. /\ Waiting(t) \in Seq(Entries(t)) /\ Len(Waiting(t)) = Len(t.list)
        /\ \A k \in DOMAIN t.list : Waiting(t)[k] = Entry(t, t.list[k])
    BY <1>1, WaitingIs
  <1> HIDE DEF S, e
  <1>5. /\ Append(Waiting(s), e) \in Seq(S) /\ Len(Append(Waiting(s), e)) = Len(s.list) + 1
        /\ \A k \in 1 .. Len(s.list) : Append(Waiting(s), e)[k] = Waiting(s)[k]
        /\ Append(Waiting(s), e)[Len(s.list) + 1] = e
    BY <1>2, <1>3, EndOfList
  <1>6. ASSUME NEW k \in 1 .. Len(Waiting(t)) PROVE Waiting(t)[k] = Append(Waiting(s), e)[k]
    <2>1. CASE k \in 1 .. Len(s.list)
      <3>1. Entry(s, s.list[k]) = Entry(t, s.list[k]) BY <2>1, <1>1, SameEntry
      <3> QED BY <2>1, <3>1, <1>1, <1>2, <1>4, <1>5
    <2>2. CASE k = Len(s.list) + 1 BY <2>2, <1>1, <1>4, <1>5 DEF e
    <2>3. 1 .. Len(Waiting(t)) = 1 .. Len(s.list) + 1 BY <1>1, <1>4
    <2>4. k \in 1 .. Len(s.list) + 1 /\ Len(s.list) \in Nat BY <2>3, <1>1
    <2> DEFINE N == Len(s.list)
    <2>5. k \in 1 .. N + 1 /\ N \in Nat BY <2>4
    <2> HIDE DEF N
    <2>6. k \in 1 .. N \/ k = N + 1 BY ONLY <2>5
    <2> QED BY <2>1, <2>2, <2>6 DEF N
  <1> DEFINE x == Waiting(t)  y == Append(Waiting(s), e)
  <1>7. /\ x \in Seq(Entries(t)) /\ y \in Seq(S) /\ Len(x) = Len(y)
        /\ \A k \in 1 .. Len(x) : x[k] = y[k]
    BY <1>1, <1>4, <1>5, <1>6
  <1> HIDE DEF x, y
  <1>8. x = y BY ONLY <1>7, SameSequence
  <1> QED BY <1>8 DEF e, x, y

LEMMA WaitingTail ==
    ASSUME NEW s, NEW t, s.list \in Seq(Objects), s.list # <<>>, t.list = Tail(s.list),
           \A k \in DOMAIN t.list : Same(s.obj[t.list[k]], t.obj[t.list[k]])
    PROVE  Waiting(t) = Tail(Waiting(s)) /\ Head(Waiting(s)) = Entry(s, Head(s.list))
           /\ Waiting(s) # <<>>
  <1>1. /\ Len(s.list) \in Nat \ {0} /\ t.list \in Seq(Objects) /\ Len(t.list) = Len(s.list) - 1
        /\ DOMAIN t.list = 1 .. Len(s.list) - 1 /\ DOMAIN s.list = 1 .. Len(s.list)
        /\ \A k \in 1 .. Len(s.list) - 1 : t.list[k] = s.list[k + 1]
        /\ Head(s.list) = s.list[1] /\ 1 \in DOMAIN s.list
    BY HeadOfList
  <1>2. /\ Waiting(s) \in Seq(Entries(s)) /\ Len(Waiting(s)) = Len(s.list)
        /\ Waiting(s) # <<>>
        /\ \A k \in DOMAIN s.list : Waiting(s)[k] = Entry(s, s.list[k])
    BY WaitingIs
  <1>3. /\ Waiting(t) \in Seq(Entries(t)) /\ Len(Waiting(t)) = Len(t.list)
        /\ \A k \in DOMAIN t.list : Waiting(t)[k] = Entry(t, t.list[k])
    BY <1>1, WaitingIs
  <1>4. /\ Tail(Waiting(s)) \in Seq(Entries(s)) /\ Len(Tail(Waiting(s))) = Len(s.list) - 1
        /\ \A k \in 1 .. Len(s.list) - 1 : Tail(Waiting(s))[k] = Waiting(s)[k + 1]
        /\ Head(Waiting(s)) = Waiting(s)[1]
    BY <1>2, HeadOfList
  <1>5. ASSUME NEW k \in 1 .. Len(Waiting(t)) PROVE Waiting(t)[k] = Tail(Waiting(s))[k]
    <2>0. 1 .. Len(Waiting(t)) = 1 .. Len(s.list) - 1 BY <1>1, <1>3
    <2>3. k \in 1 .. Len(s.list) - 1 BY <2>0
    <2>1. k \in 1 .. Len(s.list) - 1 /\ k + 1 \in 1 .. Len(s.list) BY <2>3, <1>1
    <2>4. k \in DOMAIN t.list BY <2>3, <1>1
    <2>5. Same(s.obj[t.list[k]], t.obj[t.list[k]]) BY <2>4
    <2>2. Entry(s, t.list[k]) = Entry(t, t.list[k]) BY ONLY <2>5, SameEntry
    <2> QED BY <2>1, <2>2, <1>1, <1>2, <1>3, <1>4
  <1> DEFINE x == Waiting(t)  y == Tail(Waiting(s))
  <1>6. x \in Seq(Entries(t)) /\ y \in Seq(Entries(s)) /\ Len(x) = Len(y)
    BY <1>1, <1>3, <1>4
  <1>7. \A k \in 1 .. Len(x) : x[k] = y[k] BY <1>5
  <1> HIDE DEF x, y
  <1>8. x = y BY ONLY <1>6, <1>7, SameSequence
  <1> QED BY <1>1, <1>2, <1>4, <1>8 DEF x, y

LEMMA WaitingWithout ==
    ASSUME NEW s, NEW t, s.list \in Seq(Objects), NEW out, t.list = Without(s.list, out),
           \A k \in DOMAIN s.list \ out : Same(s.obj[s.list[k]], t.obj[s.list[k]])
    PROVE  Waiting(t) = Without(Waiting(s), out)
  <1> DEFINE kept == Kept(s.list, out)
             n == Cardinality(kept)
  <1>1. /\ Waiting(s) \in Seq(Entries(s)) /\ DOMAIN Waiting(s) = DOMAIN s.list
        /\ \A k \in DOMAIN s.list : Waiting(s)[k] = Entry(s, s.list[k])
    BY WaitingIs
  <1>2. Kept(Waiting(s), out) = kept BY <1>1 DEF Kept
  <1>3. /\ t.list \in Seq(Objects) /\ Len(t.list) = n /\ DOMAIN t.list = 1 .. n
        /\ \A i \in 1 .. n : Place(kept, i) \in kept /\ t.list[i] = s.list[Place(kept, i)]
    BY WithoutIs
  <1>4. /\ Without(Waiting(s), out) \in Seq(Entries(s)) /\ Len(Without(Waiting(s), out)) = n
        /\ \A i \in 1 .. n : Without(Waiting(s), out)[i] = Waiting(s)[Place(kept, i)]
    BY <1>1, <1>2, WithoutIs
  <1>5. /\ Waiting(t) \in Seq(Entries(t)) /\ Len(Waiting(t)) = n
        /\ \A k \in 1 .. n : Waiting(t)[k] = Entry(t, t.list[k])
    BY <1>3, WaitingIs
  <1>6. \A k \in kept : k \in DOMAIN s.list /\ Entry(s, s.list[k]) = Entry(t, s.list[k])
    BY SameEntry DEF Kept
  <1> DEFINE x == Waiting(t)  y == Without(Waiting(s), out)
  <1> HIDE DEF n, kept
  <1>7. ASSUME NEW k \in 1 .. n PROVE x[k] = y[k]
    <2>1. /\ Place(kept, k) \in DOMAIN s.list /\ t.list[k] = s.list[Place(kept, k)]
          /\ Entry(s, s.list[Place(kept, k)]) = Entry(t, s.list[Place(kept, k)])
      BY <1>3, <1>6
    <2>2. x[k] = Entry(t, t.list[k]) BY <1>5
    <2>3. y[k] = Waiting(s)[Place(kept, k)] BY <1>4
    <2> QED BY <1>1, <2>1, <2>2, <2>3
  <1>8. /\ x \in Seq(Entries(t)) /\ y \in Seq(Entries(s)) /\ Len(x) = n /\ Len(y) = n
    BY <1>4, <1>5
  <1> HIDE DEF x, y
  <1>9. x = y BY ONLY <1>7, <1>8, SameSequence
  <1> QED BY <1>9 DEF x, y

(* Moving every position by one changes no rank.                           *)
LEMMA Shifted ==
    ASSUME NEW A \in SUBSET Int, NEW B \in SUBSET Int, IsFiniteSet(A),
           \A j \in Int : j \in A <=> j + 1 \in B
    PROVE  Cardinality(A) = Cardinality(B)
  <1> DEFINE f == [j \in A |-> j + 1]
  <1>1. f \in [A -> B] /\ \A a, b \in A : f[a] = f[b] => a = b
    <2>1. \A a \in A : a \in Int /\ a + 1 \in B OBVIOUS
    <2> QED BY <2>1
  <1>2. \A b \in B : \E a \in A : f[a] = b
    <2> TAKE b \in B
    <2>1. b \in Int /\ b - 1 \in Int /\ (b - 1) + 1 = b OBVIOUS
    <2>2. b - 1 \in A BY <2>1
    <2>3. f[b - 1] = b BY <2>1, <2>2
    <2> QED BY <2>2, <2>3
  <1> HIDE DEF f
  <1>3. f \in Bijection(A, B) BY <1>1, <1>2, Fun_IsBij
  <1> QED BY <1>3, FS_Bijection DEF ExistsBijection

(* Taking the first element out with others, or before them.               *)
LEMMA WithoutTail ==
    ASSUME NEW S, NEW l \in Seq(S), NEW X, l # <<>>, 1 \in X,
           NEW Y, \A k \in DOMAIN Tail(l) : k \in Y <=> k + 1 \in X
    PROVE  Without(Tail(l), Y) = Without(l, X)
  <1> DEFINE A == Kept(Tail(l), Y)
             B == Kept(l, X)
             N == Len(l)
  <1>1. /\ N \in Nat \ {0} /\ Tail(l) \in Seq(S) /\ DOMAIN Tail(l) = 1 .. N - 1
        /\ DOMAIN l = 1 .. N /\ \A k \in 1 .. N - 1 : Tail(l)[k] = l[k + 1]
    BY HeadOfList
  <1>2. A \in SUBSET (1 .. N) /\ B \in SUBSET (1 .. N) /\ A \in SUBSET (1 .. N - 1)
    BY <1>1 DEF Kept
  <1>3. \A j \in Int : j \in A <=> j + 1 \in B
    <2> TAKE j \in Int
    <2>1. CASE j \in 1 .. N - 1 BY <2>1, <1>1 DEF Kept
    <2>2. CASE j \notin 1 .. N - 1
      <3>1. j + 1 \notin 1 .. N \/ j + 1 = 1 BY <2>2, <1>1
      <3> QED BY <2>2, <3>1, <1>1 DEF Kept
    <2> QED BY <2>1, <2>2
  <1> HIDE DEF A, B, N
  <1>4. N \in Nat /\ IsFiniteSet(A) /\ IsFiniteSet(B) BY <1>1, <1>2, Places
  <1>5. A \in SUBSET Int /\ B \in SUBSET Int BY <1>2
  <1>6. Cardinality(A) = Cardinality(B) BY <1>3, <1>4, <1>5, Shifted
  <1>7. ASSUME NEW m \in A PROVE Rank(A, m) = Rank(B, m + 1) /\ m + 1 \in B
    <2> DEFINE a == {j \in A : j <= m}
               b == {j \in B : j <= m + 1}
    <2>1. m \in Int BY <1>5
    <2>2. a \in SUBSET A /\ a \in SUBSET Int /\ b \in SUBSET Int BY <1>5
    <2>3. IsFiniteSet(a) BY <1>4, <2>2, FS_Subset
    <2>4. \A j \in Int : j \in a <=> j + 1 \in b
      <3> TAKE j \in Int
      <3>1. j <= m <=> j + 1 <= m + 1 BY <2>1
      <3> QED BY <3>1, <1>3
    <2> HIDE DEF a, b
    <2>5. Cardinality(a) = Cardinality(b) BY <2>2, <2>3, <2>4, Shifted
    <2>6. m + 1 \in B BY <2>1, <1>3
    <2> QED BY <2>5, <2>6 DEF a, b, Rank
  <1>8. /\ Without(Tail(l), Y) \in Seq(S) /\ Len(Without(Tail(l), Y)) = Cardinality(A)
        /\ \A n \in 1 .. Cardinality(A) : Without(Tail(l), Y)[n] = Tail(l)[Place(A, n)]
    <2> DEFINE tl == Tail(l)
    <2>1. tl \in Seq(S) BY <1>1
    <2>2. A = Kept(tl, Y) BY DEF A
    <2> HIDE DEF tl
    <2>3. /\ Without(tl, Y) \in Seq(S) /\ Len(Without(tl, Y)) = Cardinality(A)
          /\ \A n \in 1 .. Cardinality(A) : Without(tl, Y)[n] = tl[Place(A, n)]
      BY <2>1, <2>2, WithoutIs
    <2> QED BY <2>3 DEF tl
  <1>9. /\ Without(l, X) \in Seq(S) /\ Len(Without(l, X)) = Cardinality(B)
        /\ \A n \in 1 .. Cardinality(B) : Without(l, X)[n] = l[Place(B, n)]
    BY WithoutIs DEF B
  <1>10. \A n \in 1 .. Cardinality(A) : Place(A, n) \in A /\ Rank(A, Place(A, n)) = n
    BY <1>2, <1>4, Places
  <1>11. \A k \in B : Place(B, Rank(B, k)) = k
    BY <1>2, <1>4, Places
  <1>12. ASSUME NEW n \in 1 .. Cardinality(A)
         PROVE  Without(Tail(l), Y)[n] = Without(l, X)[n]
    <2> DEFINE p == Place(A, n)
    <2>1. p \in A /\ Rank(A, p) = n BY <1>10
    <2>2. p + 1 \in B /\ Rank(B, p + 1) = n BY <2>1, <1>7
    <2>3. Place(B, n) = p + 1 BY <2>2, <1>11
    <2>4. p \in 1 .. N - 1 BY <2>1, <1>2
    <2> QED BY <2>3, <2>4, <1>1, <1>6, <1>8, <1>9
  <1> QED BY <1>6, <1>8, <1>9, <1>12, SameSequence

(* Nothing is taken out.                                                   *)
LEMMA WithoutNone ==
    ASSUME NEW S, NEW l \in Seq(S), NEW out, \A k \in DOMAIN l : k \notin out
    PROVE  Without(l, out) = l
  <1> DEFINE B == Kept(l, out)
             N == Len(l)
  <1>1. N \in Nat /\ DOMAIN l = 1 .. N OBVIOUS
  <1>2. B = 1 .. N BY <1>1 DEF Kept
  <1>3. /\ Without(l, out) \in Seq(S) /\ Len(Without(l, out)) = Cardinality(B)
        /\ \A n \in 1 .. Cardinality(B) : Without(l, out)[n] = l[Place(B, n)]
    BY WithoutIs
  <1> HIDE DEF B, N
  <1>4. Cardinality(B) = N BY <1>1, <1>2, FS_Interval
  <1>5. ASSUME NEW n \in 1 .. N PROVE Place(B, n) = n
    <2> DEFINE upto == {j \in B : j <= n}
    <2>1. upto = 1 .. n BY <1>1, <1>2
    <2>2. n \in Nat /\ n > 0 BY <1>1
    <2>3. Cardinality(1 .. n) = n BY <2>2, FS_Interval
    <2>4. Rank(B, n) = n BY <2>1, <2>3 DEF Rank
    <2>5. B \in SUBSET (1 .. N) /\ n \in B BY <1>2
    <2> QED BY <1>1, <2>4, <2>5, Places
  <1> QED BY <1>3, <1>4, <1>5, SameSequence DEF N

(* Each call and each interrupt is a step of the abstract bus.             *)
BusStep == \/ Bus!Submit \/ Bus!Serve \/ Bus!Withdraw \/ Bus!Attend

LEMMA ListType == Inv => q.list \in Seq(Objects) /\ Distinct(q.list) /\ Listed(q) /\ Busy(q)
  BY DEF Inv, Busy, Sound, QType

LEMMA WaitingNext == Waiting(q)' = Waiting(q')
  BY DEF Waiting, TransferHandle

LEMMA BusWithout ==
    ASSUME NEW s, NEW out
    PROVE  Bus!Without(s, out) = Without(s, out)
  BY DEF Bus!Without, Without, Bus!Rank, Rank, Bus!Cardinality, Cardinality

LEMMA SilenceIs == Bus!Silence = Silence
  BY DEF Bus!Silence, Silence, NoHandle

LEMMA AttendStep ==
    ASSUME Waiting(q') = Waiting(q), told' = Silence
    PROVE  BusStep
  BY WaitingNext, SilenceIs DEF BusStep, Bus!Attend

LEMMA SubmitStep ==
    ASSUME Inv, NEW c \in Clients, NEW shape \in Shapes, TransferAdd(c, shape)
    PROVE  BusStep
  <1> DEFINE n == FirstFree(q)
             e == Entry(q', n)
             w == Waiting(q)
  <1>1. q.list \in Seq(Objects) /\ Listed(q) /\ Busy(q) BY ListType
  <1>2. /\ InUse(c) /\ FreeObjects(q) # {} /\ q' = Added(q, c, shape) /\ told' = Silence
        /\ UNCHANGED client
    BY DEF TransferAdd
  <1>3. token \in Tokens /\ client[c].token \in 0 .. TokenMax - 1 BY DEF Inv, Typed
  <1>4. /\ n \in Objects /\ Free(q, n) /\ q'.list = Append(q.list, n)
        /\ \A p \in Objects \ {n} : Same(q.obj[p], q'.obj[p])
    BY <1>1, <1>2, <1>3, AddedKeeps
  <1> HIDE DEF n
  <1>5. \A k \in DOMAIN q.list : q.list[k] \in Objects \ {n}
    BY <1>1, <1>4 DEF Listed
  <1>6. Waiting(q') = Append(w, e) BY <1>1, <1>4, <1>5, WaitingAppended
  <1>7. /\ w \in Seq(Entries(q)) /\ DOMAIN w = DOMAIN q.list
        /\ \A k \in DOMAIN q.list : w[k] = Entry(q, q.list[k])
    BY <1>1, WaitingIs
  <1>8. \A k \in DOMAIN w : w[k].id # e.id
    BY <1>5, <1>7, EntryId
  <1> HIDE DEF w, e
  <1>9. /\ Append(w, e) # <<>> /\ Append(w, e)[Len(Append(w, e))] = e
    <2> DEFINE S == Entries(q) \cup {e}
    <2>1. w \in Seq(S) /\ e \in S BY <1>7
    <2> HIDE DEF S
    <2> QED BY <2>1, EndOfList
  <1>10. Listening' = Listening BY <1>2 DEF Listening, ClientHandle, InUse
  <1>11. Bus!Joined(Waiting(q)) BY <1>6, <1>8, <1>9, WaitingNext DEF Bus!Joined, w
  <1> QED BY <1>2, <1>10, <1>11, SilenceIs DEF BusStep, Bus!Submit

(* The places of a client's transfers in the list.                         *)
Theirs(c) == {j \in DOMAIN q.list : q.obj[q.list[j]].owner = ClientHandle(c)}

LEMMA WithdrawStep ==
    ASSUME Inv, NEW c \in Clients, NEW X \in {Theirs(c), Theirs(c) \ {1}},
           Waiting(q') = Without(Waiting(q), X), told' = Silence, Listening' = Listening
    PROVE  BusStep
  <1> DEFINE w == Waiting(q)
  <1>1. /\ w \in Seq(Entries(q)) /\ DOMAIN w = DOMAIN q.list
        /\ \A k \in DOMAIN q.list : w[k] = Entry(q, q.list[k])
    BY ListType, WaitingIs
  <1>2. \A k \in DOMAIN q.list : w[k].by = q.obj[q.list[k]].owner BY <1>1, EntryBy
  <1> HIDE DEF w
  <1>3. CASE Theirs(c) = {}
    <2>1. Without(w, X) = w BY <1>1, <1>3, WithoutNone
    <2> QED BY <2>1, AttendStep DEF w
  <1>4. CASE Theirs(c) # {}
    <2>1. PICK k \in Theirs(c) : TRUE BY <1>4
    <2>2. k \in DOMAIN w /\ w[k].by = ClientHandle(c) BY <1>1, <1>2, <2>1 DEF Theirs
    <2>3. {j \in DOMAIN w : w[j].by = w[k].by} = Theirs(c) BY <1>1, <1>2, <2>2 DEF Theirs
    <2>4. Waiting(q') \in {Without(w, {j \in DOMAIN w : w[j].by = w[k].by}),
                           Without(w, {j \in DOMAIN w : w[j].by = w[k].by} \ {1})}
      BY <2>3 DEF w
    <2>5. Bus!Withdraw BY <2>2, <2>4, WaitingNext, SilenceIs, BusWithout DEF Bus!Withdraw, w
    <2> QED BY <2>5 DEF BusStep
  <1> QED BY <1>3, <1>4

(* The queue of one client is withdrawn, not its transfer under way.       *)
LEMMA LeaveStep ==
    ASSUME Inv, NEW c \in Clients, q' = RemoveClientTransfers(q, c), told' = Silence,
           Listening' = Listening
    PROVE  BusStep
  <1> DEFINE X == Theirs(c) \ {1}
  <1>1. q.list \in Seq(Objects) /\ Listed(q) /\ Busy(q) BY ListType
  <1>2. q'.list = Without(q.list, Leaving(q, c)) BY <1>1, WithdrawKeeps
  <1>3. q.obj \in [Objects -> ObjType] BY <1>1 DEF Busy, Sound, QType
  <1>4. \A k \in DOMAIN q.list : q.obj[q.list[k]].state = "queued" <=> k # 1
    <2> TAKE k \in DOMAIN q.list
    <2>1. q.list[k] \in Objects BY <1>1
    <2>2. q.obj[q.list[k]] \in ObjType BY <1>3, <2>1
    <2>3. q.obj[q.list[k]].state # "free" BY <1>1, <2>1 DEF Listed, Free
    <2>4. q.obj[q.list[k]].state = "processing" <=> k = 1 BY <1>1 DEF Busy
    <2> QED BY <2>2, <2>3, <2>4 DEF ObjType
  <1>5. Leaving(q, c) = X BY <1>4 DEF Leaving, Withdrawn, Theirs
  <1>6. \A k \in DOMAIN q.list \ X : Same(q.obj[q.list[k]], q'.obj[q.list[k]])
    <2> TAKE k \in DOMAIN q.list \ X
    <2>1. q.list[k] \in Objects BY <1>1
    <2>2. ~(q.obj[q.list[k]].owner = ClientHandle(c) /\ q.obj[q.list[k]].state = "queued")
      BY <1>4 DEF Theirs
    <2>3. q'.obj[q.list[k]] = q.obj[q.list[k]] BY <1>1, <2>1, <2>2, WithdrawFrees
    <2> QED BY <2>3 DEF Same
  <1> HIDE DEF X
  <1>7. Waiting(q') = Without(Waiting(q), X) BY <1>1, <1>2, <1>5, <1>6, WaitingWithout
  <1> QED BY <1>7, WithdrawStep DEF X

LEMMA PurgeStep ==
    ASSUME Inv, NEW c \in Clients, QueuePurge(c)
    PROVE  BusStep
  <1> DEFINE X == Theirs(c)
             o == Head(q.list)
             top == Removed([q EXCEPT !.master = IdleMaster])
             t == RemoveClientTransfers(top, c)
  <1>1. /\ q' = Purged(c) /\ told' = Silence /\ UNCHANGED client
    BY DEF QueuePurge, Purged, Aborts
  <1>2. Listening' = Listening BY <1>1 DEF Listening, ClientHandle, InUse
  <1>3. CASE ~Aborts(c)
    BY <1>1, <1>2, <1>3, LeaveStep DEF Purged
  <1>4. CASE Aborts(c)
    <2>1. q.list \in Seq(Objects) /\ Listed(q) /\ Busy(q) /\ q.list # <<>> BY <1>4, ListType DEF Aborts
    <2>2. /\ Resting(top) /\ top.list = Tail(q.list) /\ o \in Objects
          /\ q'.list = t.list /\ Untouched(t, q')
          /\ \A p \in Objects \ {o} :
                 /\ ~(q.obj[p].owner = ClientHandle(c) /\ ~Free(q, p)) => t.obj[p] = q.obj[p]
                 /\ top.obj[p] = q.obj[p]
      BY <1>1, <1>4, <2>1, PurgedAborting
    <2> HIDE DEF top
    <2>3. t.list = Without(Tail(q.list), Leaving(top, c)) BY <2>2, WithdrawKeeps
    <2>4. /\ DOMAIN Tail(q.list) = 1 .. Len(q.list) - 1 /\ DOMAIN q.list = 1 .. Len(q.list)
          /\ \A k \in 1 .. Len(q.list) - 1 : Tail(q.list)[k] = q.list[k + 1]
          /\ o = q.list[1] /\ 1 \in DOMAIN q.list /\ Len(q.list) \in Nat \ {0}
      BY <2>1, HeadOfList
    <2>5. 1 \in X BY <1>4, <2>4 DEF Theirs, Aborts
    <2>6. \A k \in DOMAIN Tail(q.list) : k \in Leaving(top, c) <=> k + 1 \in X
      <3> TAKE k \in DOMAIN Tail(q.list)
      <3>1. k + 1 \in DOMAIN q.list /\ k + 1 # 1 BY <2>4
      <3>2. top.list[k] = q.list[k + 1] /\ k \in DOMAIN top.list BY <2>2, <2>4
      <3>3. q.list[k + 1] \in Objects \ {o}
        BY <2>1, <2>4, <3>1, ListType DEF Distinct
      <3>4. top.obj[top.list[k]] = q.obj[q.list[k + 1]] BY <2>2, <3>2, <3>3
      <3>5. top.obj[top.list[k]].state = "queued" BY <2>2, <3>2 DEF Resting
      <3> QED BY <3>1, <3>2, <3>4, <3>5 DEF Leaving, Withdrawn, Theirs
    <2>7. Without(Tail(q.list), Leaving(top, c)) = Without(q.list, X)
      BY <2>1, <2>5, <2>6, WithoutTail
    <2>8. \A k \in DOMAIN q.list \ X : Same(q.obj[q.list[k]], q'.obj[q.list[k]])
      <3> TAKE k \in DOMAIN q.list \ X
      <3>1. q.list[k] \in Objects \ {o} BY <2>1, <2>4, <2>5, ListType DEF Distinct
      <3>2. q.obj[q.list[k]].owner # ClientHandle(c) BY DEF Theirs
      <3>3. t.obj[q.list[k]] = q.obj[q.list[k]] BY <2>2, <3>1, <3>2
      <3>4. Same(t.obj[q.list[k]], q'.obj[q.list[k]]) BY <2>2, <3>1 DEF Untouched
      <3> QED BY <3>3, <3>4
    <2> HIDE DEF t, X
    <2>9. q'.list = Without(q.list, X) BY <2>2, <2>3, <2>7
    <2>10. Waiting(q') = Without(Waiting(q), X) BY <2>1, <2>8, <2>9, WaitingWithout
    <2> QED BY <1>1, <1>2, <2>10, WithdrawStep DEF X
  <1> QED BY <1>3, <1>4

LEMMA ListensIs ==
    ASSUME Typed, NEW owner \in Clients \X Tokens
    PROVE  owner \in Listening <=> Alive(owner) /\ client[owner[1]].handler
  <1>1. owner = <<owner[1], owner[2]>> /\ owner[1] \in Clients /\ owner[2] # 0
    BY I2cAssumption DEF Tokens
  <1>2. ASSUME owner \in Listening PROVE Alive(owner) /\ client[owner[1]].handler
    <2>1. PICK d \in Clients : InUse(d) /\ client[d].handler /\ ClientHandle(d) = owner
      BY <1>2 DEF Listening
    <2>2. owner[1] = d /\ owner[2] = client[d].token BY <2>1 DEF ClientHandle
    <2> QED BY <2>1, <2>2 DEF Alive
  <1>3. ASSUME Alive(owner), client[owner[1]].handler PROVE owner \in Listening
    <2>1. owner = ClientHandle(owner[1]) /\ InUse(owner[1])
      BY <1>1, <1>3 DEF Alive, ClientHandle, InUse
    <2> QED BY <1>1, <1>3, <2>1 DEF Listening
  <1> QED BY <1>2, <1>3

(* An end is what the bus calls Serve.                                     *)
LEMMA ServeStep ==
    ASSUME Inv, NEW event \in {"complete", "error"}, NEW shape, Ends(event, shape)
    PROVE  BusStep
  <1> DEFINE o == Head(q.list)
             c == q.obj[o].owner[1]
             s == AfterEnd(event)
             n == FirstFree(s)
             w == Waiting(q)
  <1>1. q.list # <<>> /\ UNCHANGED client BY DEF Ends
  <1>2. Typed /\ q.list \in Seq(Objects) /\ Listed(q) /\ Busy(q) /\ Distinct(q.list)
    BY ListType DEF Inv
  <1>3. /\ s.list = Tail(q.list) /\ o \in Objects /\ Resting(s)
        /\ \A p \in Objects \ {o} : s.obj[p] = q.obj[p]
        /\ q.obj[o].owner \in Clients \X Tokens
    BY <1>1, <1>2, AfterEndIs
  <1>4. /\ DOMAIN Tail(q.list) = 1 .. Len(q.list) - 1 /\ DOMAIN q.list = 1 .. Len(q.list)
        /\ \A k \in 1 .. Len(q.list) - 1 : Tail(q.list)[k] = q.list[k + 1]
        /\ o = q.list[1] /\ 1 \in DOMAIN q.list /\ Len(q.list) \in Nat \ {0}
        /\ Tail(q.list) \in Seq(Objects)
    BY <1>1, <1>2, HeadOfList
  <1>5. \A k \in DOMAIN Tail(q.list) : Tail(q.list)[k] \in Objects \ {o} /\ ~Free(q, Tail(q.list)[k])
    <2> TAKE k \in DOMAIN Tail(q.list)
    <2>1. k + 1 \in DOMAIN q.list /\ k + 1 # 1 /\ Tail(q.list)[k] = q.list[k + 1] BY <1>4
    <2>2. q.list[k + 1] \in Objects /\ q.list[k + 1] # o BY <1>2, <1>4, <2>1 DEF Distinct
    <2> QED BY <1>2, <2>1, <2>2 DEF Listed
  <1>6. Head(w) = Entry(q, o) /\ w # <<>> /\ Waiting(s) = Tail(w)
    <2>1. \A k \in DOMAIN s.list : Same(q.obj[s.list[k]], s.obj[s.list[k]])
      BY <1>3, <1>5 DEF Same
    <2> QED BY <1>1, <1>2, <1>3, <2>1, WaitingTail
  <1>7. Head(w).by = q.obj[o].owner /\ Head(w).id = TransferHandle(q, o) BY <1>6, EntryBy
  <1>8. Listening' = Listening BY <1>1 DEF Listening, ClientHandle, InUse
  <1>9. q.obj[o].owner \in Listening <=> Alive(q.obj[o].owner) /\ client[c].handler
    BY <1>2, <1>3, ListensIs
  <1>10. ASSUME q' = Initiated(s) PROVE Waiting(q') = Tail(w)
    <2>1. q'.list = s.list /\ Untouched(s, q') BY <1>3, <1>10, InitiatedBusy
    <2>2. \A k \in DOMAIN Tail(q.list) : Same(q.obj[Tail(q.list)[k]], q'.obj[Tail(q.list)[k]])
      BY <1>3, <1>5, <2>1 DEF Untouched, Same
    <2> QED BY <1>1, <1>2, <1>3, <2>1, <2>2, WaitingTail
  <1>11. ASSUME ~Alive(q.obj[o].owner), q' = Initiated(Removed([q EXCEPT !.master = IdleMaster])),
                UNCHANGED <<token, last>>
         PROVE  Waiting(q') = Tail(w)
    <2>1. UNCHANGED <<client, exclusive, closing>> BY DEF Ends
    <2>2. q'.list = Tail(q.list) /\ \A p \in Objects \ {o} : Same(q.obj[p], q'.obj[p])
      BY <1>1, <1>11, <2>1, NotToldKeeps
    <2> QED BY <1>1, <1>2, <1>5, <2>2, WaitingTail
  <1>12. ASSUME c \in Clients, InUse(c), shape \in Shapes, FreshTransfer(n),
                ClientHandle(c) = q.obj[o].owner,
                q' = Initiated(Added(s, c, shape)),
                last' = [Fate(last, TransferHandle(q, o), event) EXCEPT
                                 ![c] = [id |-> <<n, token>>, fate |-> "pending"]],
                token' = NextToken
         PROVE  \E e : /\ Waiting(q') = Append(Tail(w), e) /\ e.by = q.obj[o].owner
                       /\ \A k \in DOMAIN Tail(w) : Tail(w)[k].id # e.id
                       /\ Append(Tail(w), e) # <<>>
                       /\ Append(Tail(w), e)[Len(Append(Tail(w), e))] = e
    <2> DEFINE e == Entry(q', n)
               v == Waiting(s)
    <2>1. UNCHANGED <<client, exclusive, closing>> BY DEF Ends
    <2>2. /\ q'.list = Append(s.list, n) /\ n \in Objects /\ Free(s, n)
          /\ q'.obj[n].owner = ClientHandle(c)
          /\ \A p \in Objects \ {n} : Same(s.obj[p], q'.obj[p])
      BY <1>1, <1>3, <1>12, <2>1, ToldAndAddedKeeps
    <2>3. s.list \in Seq(Objects) /\ Listed(s) BY <1>3, <1>4 DEF Resting, Sound
    <2>4. \A k \in DOMAIN s.list : s.list[k] \in Objects \ {n} BY <2>2, <2>3 DEF Listed
    <2>5. \A k \in DOMAIN s.list : Same(s.obj[s.list[k]], q'.obj[s.list[k]]) BY <2>2, <2>4
    <2> HIDE DEF n, s
    <2>6. Waiting(q') = Append(v, e) BY <2>2, <2>3, <2>5, WaitingAppended
    <2>7. /\ v \in Seq(Entries(s)) /\ DOMAIN v = DOMAIN s.list
          /\ \A k \in DOMAIN s.list : v[k] = Entry(s, s.list[k])
      BY <2>3, WaitingIs
    <2>8. \A k \in DOMAIN v : v[k].id # e.id BY <2>4, <2>7, EntryId
    <2>9. e.by = q.obj[o].owner BY <2>2, <1>12, EntryBy
    <2> HIDE DEF e, v
    <2>10. Append(v, e) # <<>> /\ Append(v, e)[Len(Append(v, e))] = e
      <3> DEFINE S == Entries(s) \cup {e}
      <3>1. v \in Seq(S) /\ e \in S BY <2>7
      <3> HIDE DEF S
      <3> QED BY <3>1, EndOfList
    <2>11. v = Tail(w) BY <1>6 DEF v
    <2> QED BY <2>6, <2>8, <2>9, <2>10, <2>11
  <1> DEFINE told1 == told' = [to |-> q.obj[o].owner, id |-> TransferHandle(q, o), event |-> event]
             joined == Bus!Joined(Tail(w)) /\ Waiting(q')[Len(Waiting(q'))].by = q.obj[o].owner
  <1>13. ASSUME NEW e, Waiting(q') = Append(Tail(w), e), e.by = q.obj[o].owner,
                \A k \in DOMAIN Tail(w) : Tail(w)[k].id # e.id,
                Append(Tail(w), e) # <<>>, Append(Tail(w), e)[Len(Append(Tail(w), e))] = e
         PROVE  joined
    <2> DEFINE tl == Tail(w)
               a == Append(tl, e)
    <2>1. Waiting(q)' = a /\ a # <<>> /\ a[Len(a)] = e /\ a = Append(tl, e) BY <1>13, WaitingNext
    <2>2. \A k \in DOMAIN tl : tl[k].id # e.id BY <1>13
    <2> HIDE DEF tl, a
    <2>3. Bus!Joined(tl) BY <2>1, <2>2 DEF Bus!Joined
    <2>4. Waiting(q')[Len(Waiting(q'))] = e BY <2>1, WaitingNext
    <2> QED BY <2>3, <2>4, <1>13 DEF tl
  <1>14. CASE Alive(q.obj[o].owner) /\ client[c].handler
    <2>1. told1 BY <1>14 DEF Ends
    <2>2. Waiting(q') = Tail(w) \/ joined
      BY <1>10, <1>12, <1>13, <1>14 DEF Ends
    <2> HIDE DEF told1, joined
    <2>3. told1 /\ q.obj[o].owner \in Listening BY <2>1, <1>9, <1>14
    <2>4. Bus!Serve
      <3> DEFINE tl == Tail(w)
                 hd == Head(w)
      <3>1. hd.by = q.obj[o].owner /\ hd.id = TransferHandle(q, o) BY <1>7
      <3> HIDE DEF tl, hd
      <3>2. told'.event = event BY <2>3 DEF told1
      <3>3. told' = [to |-> hd.by, id |-> hd.id, event |-> told'.event]
        BY <2>3, <3>1, <3>2 DEF told1
      <3>4. \/ Waiting(q)' = tl
            \/ Bus!Joined(tl) /\ Waiting(q)'[Len(Waiting(q)')].by = hd.by
        BY <2>2, <3>1, WaitingNext DEF joined, tl
      <3> QED BY <1>6, <1>8, <2>3, <3>1, <3>2, <3>3, <3>4 DEF Bus!Serve, hd, tl, w
    <2> QED BY <2>4 DEF BusStep
  <1>15. CASE ~(Alive(q.obj[o].owner) /\ client[c].handler)
    <2>1. told' = Silence BY <1>15 DEF Ends
    <2>2. Waiting(q') = Tail(w) BY <1>10, <1>11, <1>15 DEF Ends
    <2>3. Head(w).by \notin Listening BY <1>7, <1>9, <1>15
    <2>4. Bus!Serve
      BY <1>6, <1>8, <2>1, <2>2, <2>3, WaitingNext, SilenceIs DEF Bus!Serve
    <2> QED BY <2>4 DEF BusStep
  <1> QED BY <1>14, <1>15

LEMMA EveryStepIsBusStep == Inv /\ [Next]_vars => [BusStep]_(Bus!busVars)
  <1> SUFFICES ASSUME Inv, [Next]_vars PROVE [BusStep]_(Bus!busVars) OBVIOUS
  <1>1. ASSUME NEW c \in Clients, NEW forItself \in BOOLEAN, NEW listens \in BOOLEAN,
               Open(c, forItself, listens)
        PROVE  BusStep
    BY <1>1, AttendStep DEF Open
  <1>2. ASSUME NEW c \in Clients, CloseBegin(c) PROVE BusStep
    <2>1. Listening' = Listening BY <1>2 DEF CloseBegin, Listening, ClientHandle, InUse
    <2> QED BY <1>2, <2>1, LeaveStep DEF CloseBegin
  <1>3. ASSUME NEW c \in Clients, QueuePurge(c) PROVE BusStep BY <1>3, PurgeStep
  <1>4. ASSUME NEW c \in Clients, NEW shape \in Shapes, TransferAdd(c, shape) PROVE BusStep
    BY <1>4, SubmitStep
  <1>5. CASE CloseEnd BY <1>5, AttendStep DEF CloseEnd
  <1>6. ASSUME NEW outcome \in Outcomes, Byte(outcome) PROVE BusStep
    <2>1. q'.list = q.list /\ q'.obj = q.obj BY <1>6, ByteKeeps
    <2>2. Waiting(q') = Waiting(q) BY <2>1 DEF Waiting, TransferHandle
    <2> QED BY <1>6, <2>2, AttendStep DEF Byte
  <1>7. ASSUME NEW outcome \in Outcomes, NEW shape \in Shapes \cup {NoBytes},
               TransferEnd(outcome, shape)
        PROVE  BusStep
    <2>1. PICK event \in {"complete", "error"} : Ends(event, shape)
      BY <1>7, TransferEndEnds
    <2> QED BY <2>1, ServeStep
  <1>8. CASE UNCHANGED vars
    <2>1. UNCHANGED Bus!busVars
      BY <1>8 DEF vars, Bus!busVars, Waiting, TransferHandle, Listening, ClientHandle, InUse
    <2> QED BY <2>1
  <1> QED BY <1>1, <1>2, <1>3, <1>4, <1>5, <1>6, <1>7, <1>8 DEF Next, Call, Interrupt

LEMMA InitIsBusInit == Init => Bus!BusInit
  <1> SUFFICES ASSUME Init PROVE Bus!BusInit OBVIOUS
  <1>1. q.list = <<>> /\ told = Silence /\ \A c \in Clients : ~InUse(c)
    BY DEF Init, InUse, NotInUse
  <1>2. q.list \in Seq(Objects) BY <1>1
  <1>3. Waiting(q) = <<>> BY <1>1, <1>2, WaitingIs
  <1>4. Listening = {} BY <1>1 DEF Listening
  <1> QED BY <1>1, <1>3, <1>4, SilenceIs DEF Bus!BusInit

(* The driver does what I2cBus promises: transfers are carried out in the  *)
(* order they were submitted, each is told once to the client that         *)
(* submitted it, and a client that withdraws or closes loses its own       *)
(* transfers and no other.                                                 *)
THEOREM DriverImplementsBus == Spec => ImplementsBus
  <1>1. Inv /\ [Next]_vars =>
          [Bus!Submit \/ Bus!Serve \/ Bus!Withdraw \/ Bus!Attend]_(Bus!busVars)
    BY EveryStepIsBusStep DEF BusStep
  <1> QED BY <1>1, InitIsBusInit, InvAlways, PTL DEF Spec, ImplementsBus, Bus!BusBehaviour
=============================================================================
