--------------------------- MODULE ProfilesProofs ---------------------------
(***************************************************************************)
(* TLAPS proofs about the settings and the profiles (Profiles), for any    *)
(* number of profiles, values, devices and calls, and whatever an earlier  *)
(* life left in flash.                                                     *)
(*                                                                         *)
(* LockInv lists what a holder of the profiles' lock can have left to do   *)
(* and, for each, how far flash is behind memory; the choice flash holds   *)
(* is always of a profile flash holds.  ValueInv adds the values, RowInv   *)
(* the count of restarts, HandInv the choice by hand.                      *)
(***************************************************************************)
EXTENDS Profiles, SequenceTheorems, WellFoundedInduction, TLAPS

NoName  == ""
Words   == STRING \cup {NoName}
Faces   == [cec : Words, os : Words]
OwnRec  == [used : BOOLEAN, set : Values \cup {NoVal}, rule : Faces]
Own     == [Slots -> OwnRec]
NvRec   == [base : Values, prof : Own, active : 0..ProfilesMax, byHand : BOOLEAN,
            seen : Faces, restarts : Nat, cec : Words]
AutoPcs == {"idle", "ask", "pick", "select", "values", "allow", "cec", "restart"}
AutoRec == [pc : AutoPcs, last : Faces, still : 0..2, acted : Faces, same : BOOLEAN,
            id : 0..ProfilesMax]
WebRec  == [pc : {"idle", "persist", "store", "profiles", "values"}, v : Values]
HandRec == [fp : Faces, id : 0..ProfilesMax]

ProfTypes ==
    /\ base \in Values /\ over \in Values \cup {NoVal}
    /\ prof \in Own /\ active \in 0..ProfilesMax /\ byHand \in BOOLEAN
    /\ nv \in NvRec /\ web \in WebRec
    /\ seenFp \in Faces /\ auto \in AutoRec
    /\ dev \in Faces /\ strayed \in BOOLEAN /\ hand \in HandRec /\ inRow \in Int

(* The count in flash is never behind the restarts in a row, the one that  *)
(* is decided included, and the device it is kept for is the one attached. *)
Decided == IF auto.pc \in {"cec", "restart"} THEN 1 ELSE 0

Counted == inRow + Decided <= nv.restarts

RowInv ==
    /\ nv.restarts <= RestartsMax /\ Counted
    /\ auto.pc # "idle" => seenFp = auto.last /\ auto.last.cec \in {NoName, dev.cec}
    /\ inRow > 0 \/ auto.pc = "restart" => nv.cec \in {NoName, dev.cec}

(* Flash and memory: nothing but slot i, or nothing at all, differs; the   *)
(* choice does not.                                                        *)
SameBut(i) == \A j \in Slots \ {i} : prof[j] = nv.prof[j]
Same       == prof = nv.prof
SameChoice == active = nv.active /\ (active # 0 => byHand = nv.byHand)

(* What the holder of the lock may have left to do, and how far flash is.  *)
Resting == todo = <<>> /\ Same /\ SameChoice
Erasing == todo = <<Erase>> /\ web.pc = "values"
Saving(i) ==
    /\ SameBut(i) /\ SameChoice
    /\ \/ todo = <<Save(i)>>
       \/ todo = <<Save(i), Overlay>>
       \/ todo = <<Save(i), Switch(i, TRUE), Overlay, Active, Hold>> /\ prof[i].used
Switching(id) ==
    /\ Same /\ SameChoice /\ Usable(id)
    /\ \/ todo = <<Switch(id, FALSE), Overlay, Active>>
       \/ todo = <<Switch(id, TRUE), Overlay, Active, Hold>>
       \/ todo = <<Switch(id, FALSE), Active>> /\ id = active
       \/ todo = <<Switch(id, TRUE), Active, Hold>> /\ id = active
Loading ==
    /\ Same
    /\ \/ todo = <<Overlay>> /\ SameChoice
       \/ todo = <<Overlay, Active>>
       \/ todo = <<Overlay, Active, Hold>> /\ byHand
Choosing ==
    /\ Same
    /\ \/ todo = <<Active>>
       \/ todo = <<Active, Hold>> /\ byHand
       \/ todo = <<Hold>> /\ byHand /\ SameChoice
Deleting(i) ==
    /\ Same
    /\ \/ todo = <<Switch(0, FALSE), Overlay, Active, Drop(i), Save(i)>> /\ SameChoice
       \/ todo = <<Overlay, Active, Drop(i), Save(i)>> /\ active = 0
       \/ todo = <<Active, Drop(i), Save(i)>> /\ active = 0
       \/ todo = <<Drop(i), Save(i)>> /\ SameChoice /\ active # i

LockInv ==
    /\ Usable(active) /\ (nv.active = 0 \/ nv.prof[nv.active].used)
    /\ \/ Resting \/ Erasing \/ Loading \/ Choosing
       \/ \E i \in Slots : Saving(i) \/ Deleting(i)
       \/ \E id \in 0..ProfilesMax : Switching(id)
    /\ web.pc = "values" =>
         /\ active = 0 /\ byHand = FALSE /\ prof = Fresh.prof
         /\ todo = <<>> \/ todo = <<Erase>>

(* The values: what a call has still to store, and the overlay, which is   *)
(* the active profile's.                                                   *)
OverlayAhead == \E k \in DOMAIN todo : todo[k].do = "overlay"
OverOf       == IF active = 0 THEN NoVal ELSE prof[active].set

ValueInv ==
    /\ web.pc \in {"profiles", "values"} => nv.base = Def
    /\ strayed \/ (/\ web.pc \in {"idle", "store"} => base = nv.base
                   /\ web.pc = "persist" => base = web.v)
    /\ strayed \/ OverlayAhead \/ web.pc = "values"
         \/ (IF web.pc = "store" THEN active # 0 /\ over = web.v ELSE over = OverOf)

HandInv ==
    /\ hand.id # 0 =>
         /\ nv.active = hand.id /\ nv.byHand
         /\ todo = <<Erase>> \/ (active = hand.id /\ byHand /\ auto.pc \notin {"pick", "select"})
    /\ undone \subseteq {0}

ProfInv == ProfTypes /\ RowInv /\ LockInv /\ ValueInv /\ HandInv

----------------------------------------------------------------------------
LEMMA Tuples ==
    /\ \A a : Head(<<a>>) = a /\ Tail(<<a>>) = <<>>
    /\ \A a, b : Head(<<a, b>>) = a /\ Tail(<<a, b>>) = <<b>>
    /\ \A a, b, c : Head(<<a, b, c>>) = a /\ Tail(<<a, b, c>>) = <<b, c>>
    /\ \A a, b, c, d : Head(<<a, b, c, d>>) = a /\ Tail(<<a, b, c, d>>) = <<b, c, d>>
    /\ \A a, b, c, d, e : Head(<<a, b, c, d, e>>) = a /\ Tail(<<a, b, c, d, e>>) = <<b, c, d, e>>
OBVIOUS

(* Which step of a call comes next, and what is left after it.             *)
LEMMA SwitchNext ==
    ASSUME LockInv, Doing("switch")
    PROVE  \E id \in 0..ProfilesMax, h \in BOOLEAN :
             /\ Head(todo) = Switch(id, h) /\ Same /\ SameChoice /\ Usable(id)
             /\ \/ todo' = <<Overlay, Active>> /\ h = FALSE
                \/ todo' = <<Overlay, Active, Hold>> /\ h = TRUE
                \/ todo' = <<Active>> /\ h = FALSE /\ id = active
                \/ todo' = <<Active, Hold>> /\ h = TRUE /\ id = active
                \/ id = 0 /\ h = FALSE /\ \E i \in Slots : todo' = <<Overlay, Active, Drop(i), Save(i)>>
<1>1. todo' = Tail(todo) /\ todo # <<>> /\ Head(todo).do = "switch"
  BY DEF Doing
<1>2. CASE Resting \/ Erasing \/ Loading \/ Choosing \/ \E i \in Slots : Saving(i)
  BY <1>1, <1>2, Tuples DEF Resting, Erasing, Loading, Choosing, Saving, Switch, Overlay, Active, Hold, Save, Erase
<1>3. ASSUME NEW i \in Slots, Deleting(i)
      PROVE  /\ Head(todo) = Switch(0, FALSE) /\ Same /\ SameChoice
             /\ todo' = <<Overlay, Active, Drop(i), Save(i)>>
  <2>1. /\ todo # <<Overlay, Active, Drop(i), Save(i)>> /\ todo # <<Active, Drop(i), Save(i)>>
        /\ todo # <<Drop(i), Save(i)>>
    BY <1>1, Tuples DEF Overlay, Active, Drop
  <2>2. /\ Same /\ SameChoice
        /\ todo = <<Switch(0, FALSE), Overlay, Active, Drop(i), Save(i)>>
    BY <1>3, <2>1 DEF Deleting
  <2> QED
    BY <1>1, <2>2, Tuples
<1>4. ASSUME NEW id \in 0..ProfilesMax, Switching(id)
      PROVE  \E h \in BOOLEAN :
             /\ Head(todo) = Switch(id, h) /\ Same /\ SameChoice /\ Usable(id)
             /\ \/ todo' = <<Overlay, Active>> /\ h = FALSE
                \/ todo' = <<Overlay, Active, Hold>> /\ h = TRUE
                \/ todo' = <<Active>> /\ h = FALSE /\ id = active
                \/ todo' = <<Active, Hold>> /\ h = TRUE /\ id = active
  <2>1a. todo = <<Switch(id, FALSE), Overlay, Active>> =>
          Head(todo) = Switch(id, FALSE) /\ todo' = <<Overlay, Active>>
    BY <1>1, Tuples
  <2>1b. todo = <<Switch(id, TRUE), Overlay, Active, Hold>> =>
          Head(todo) = Switch(id, TRUE) /\ todo' = <<Overlay, Active, Hold>>
    BY <1>1, Tuples
  <2>1c. todo = <<Switch(id, FALSE), Active>> =>
          Head(todo) = Switch(id, FALSE) /\ todo' = <<Active>>
    BY <1>1, Tuples
  <2>1d. todo = <<Switch(id, TRUE), Active, Hold>> =>
          Head(todo) = Switch(id, TRUE) /\ todo' = <<Active, Hold>>
    BY <1>1, Tuples
  <2>2. FALSE \in BOOLEAN /\ TRUE \in BOOLEAN
    OBVIOUS
  <2> QED
    BY <1>4, <2>1a, <2>1b, <2>1c, <2>1d, <2>2, Zenon DEF Switching
<1>5. 0 \in 0..ProfilesMax /\ Usable(0)
  BY ProfilesAssumption DEF Usable
<1> QED
  BY <1>2, <1>3, <1>4, <1>5 DEF LockInv

LEMMA OverlayNext ==
    ASSUME LockInv, Doing("overlay")
    PROVE  /\ Same
           /\ \/ todo' = <<>> /\ SameChoice
              \/ todo' = <<Active>>
              \/ todo' = <<Active, Hold>> /\ byHand
              \/ \E i \in Slots : todo' = <<Active, Drop(i), Save(i)>> /\ active = 0
<1>1. todo' = Tail(todo) /\ todo # <<>> /\ Head(todo).do = "overlay"
  BY DEF Doing
<1>2. CASE Resting \/ Erasing \/ Choosing \/ (\E i \in Slots : Saving(i))
             \/ \E id \in 0..ProfilesMax : Switching(id)
  BY <1>1, <1>2, Tuples DEF Resting, Erasing, Choosing, Saving, Switching, Switch, Active, Hold, Save, Erase
<1>3. CASE Loading
  <2>1a. todo = <<Overlay>> => todo' = <<>>
    BY <1>1, Tuples
  <2>1b. todo = <<Overlay, Active>> => todo' = <<Active>>
    BY <1>1, Tuples
  <2>1c. todo = <<Overlay, Active, Hold>> => todo' = <<Active, Hold>>
    BY <1>1, Tuples
  <2> QED
    BY <1>3, <2>1a, <2>1b, <2>1c, Zenon DEF Loading
<1>4. ASSUME NEW i \in Slots, Deleting(i)
      PROVE  Same /\ todo' = <<Active, Drop(i), Save(i)>> /\ active = 0
  <2>1. /\ todo # <<Switch(0, FALSE), Overlay, Active, Drop(i), Save(i)>>
        /\ todo # <<Active, Drop(i), Save(i)>> /\ todo # <<Drop(i), Save(i)>>
    BY <1>1, Tuples DEF Switch, Active, Drop
  <2>2. todo = <<Overlay, Active, Drop(i), Save(i)>> => todo' = <<Active, Drop(i), Save(i)>>
    BY <1>1, Tuples
  <2> QED
    BY <1>4, <2>1, <2>2, Zenon DEF Deleting
<1> QED
  BY <1>2, <1>3, <1>4 DEF LockInv

LEMMA ActiveNext ==
    ASSUME LockInv, Doing("active")
    PROVE  /\ Same
           /\ \/ todo' = <<>>
              \/ todo' = <<Hold>> /\ byHand
              \/ \E i \in Slots : todo' = <<Drop(i), Save(i)>> /\ active = 0
<1>1. todo' = Tail(todo) /\ todo # <<>> /\ Head(todo).do = "active"
  BY DEF Doing
<1>2. CASE Resting \/ Erasing \/ Loading \/ (\E i \in Slots : Saving(i))
             \/ \E id \in 0..ProfilesMax : Switching(id)
  BY <1>1, <1>2, Tuples DEF Resting, Erasing, Loading, Saving, Switching, Switch, Overlay, Save, Erase
<1>3. CASE Choosing
  <2>1. /\ todo = <<Active>> => todo' = <<>>
        /\ todo = <<Active, Hold>> => todo' = <<Hold>>
    BY <1>1, Tuples, Zenon
  <2>2. todo # <<Hold>>
    BY <1>1, Tuples DEF Hold
  <2> QED
    BY <1>3, <2>1, <2>2, Zenon DEF Choosing
<1>4. ASSUME NEW i \in Slots, Deleting(i)
      PROVE  Same /\ todo' = <<Drop(i), Save(i)>> /\ active = 0
  <2>1. /\ todo # <<Switch(0, FALSE), Overlay, Active, Drop(i), Save(i)>>
        /\ todo # <<Overlay, Active, Drop(i), Save(i)>> /\ todo # <<Drop(i), Save(i)>>
    BY <1>1, Tuples DEF Switch, Overlay, Drop
  <2>2. todo = <<Active, Drop(i), Save(i)>> => todo' = <<Drop(i), Save(i)>>
    BY <1>1, Tuples
  <2> QED
    BY <1>4, <2>1, <2>2, Zenon DEF Deleting
<1> QED
  BY <1>2, <1>3, <1>4 DEF LockInv

LEMMA HoldNext ==
    ASSUME LockInv, Doing("hold")
    PROVE  Same /\ SameChoice /\ byHand /\ todo' = <<>>
<1>1. todo' = Tail(todo) /\ todo # <<>> /\ Head(todo).do = "hold"
  BY DEF Doing
<1>2. CASE Resting \/ Erasing \/ Loading \/ (\E i \in Slots : Saving(i) \/ Deleting(i))
             \/ \E id \in 0..ProfilesMax : Switching(id)
  BY <1>1, <1>2, Tuples DEF Resting, Erasing, Loading, Saving, Deleting, Switching, Switch, Overlay, Active,
                            Drop, Save, Erase
<1>3. CASE Choosing
  BY <1>1, <1>3, Tuples DEF Choosing, Active
<1> QED
  BY <1>2, <1>3 DEF LockInv

LEMMA SaveNext ==
    ASSUME LockInv, Doing("save")
    PROVE  \E i \in Slots :
             /\ Head(todo).id = i /\ SameBut(i) /\ SameChoice
             /\ \/ todo' = <<>>
                \/ todo' = <<Overlay>>
                \/ todo' = <<Switch(i, TRUE), Overlay, Active, Hold>> /\ prof[i].used
<1>1. todo' = Tail(todo) /\ todo # <<>> /\ Head(todo).do = "save"
  BY DEF Doing
<1>2. CASE Resting \/ Erasing \/ Loading \/ Choosing \/ (\E i \in Slots : Deleting(i))
             \/ \E id \in 0..ProfilesMax : Switching(id)
  BY <1>1, <1>2, Tuples DEF Resting, Erasing, Loading, Choosing, Deleting, Switching, Switch, Overlay, Active,
                            Hold, Drop, Erase
<1>3. ASSUME NEW i \in Slots, Saving(i)
      PROVE  /\ Head(todo).id = i /\ SameBut(i) /\ SameChoice
             /\ \/ todo' = <<>>
                \/ todo' = <<Overlay>>
                \/ todo' = <<Switch(i, TRUE), Overlay, Active, Hold>> /\ prof[i].used
  <2>1a. todo = <<Save(i)>> => Head(todo) = Save(i) /\ todo' = <<>>
    BY <1>1, Tuples
  <2>1b. todo = <<Save(i), Overlay>> => Head(todo) = Save(i) /\ todo' = <<Overlay>>
    BY <1>1, Tuples
  <2>1c. todo = <<Save(i), Switch(i, TRUE), Overlay, Active, Hold>> =>
          Head(todo) = Save(i) /\ todo' = <<Switch(i, TRUE), Overlay, Active, Hold>>
    <3> DEFINE b == Switch(i, TRUE)
    <3> HIDE DEF b
    <3>1. /\ Head(<<Save(i), b, Overlay, Active, Hold>>) = Save(i)
          /\ Tail(<<Save(i), b, Overlay, Active, Hold>>) = <<b, Overlay, Active, Hold>>
      BY Tuples
    <3>2. todo = <<Save(i), b, Overlay, Active, Hold>> =>
            Head(todo) = Save(i) /\ todo' = <<b, Overlay, Active, Hold>>
      BY <1>1, <3>1
    <3> QED
      BY <3>2, Zenon DEF b
  <2>2. Save(i).id = i
    BY DEF Save
  <2> QED
    BY <1>3, <2>1a, <2>1b, <2>1c, <2>2, Zenon DEF Saving
<1> QED
  BY <1>2, <1>3 DEF LockInv

LEMMA DropNext ==
    ASSUME LockInv, Doing("drop")
    PROVE  \E i \in Slots :
             Head(todo).id = i /\ Same /\ SameChoice /\ active # i /\ todo' = <<Save(i)>>
<1>1. todo' = Tail(todo) /\ todo # <<>> /\ Head(todo).do = "drop"
  BY DEF Doing
<1>2. CASE Resting \/ Erasing \/ Loading \/ Choosing \/ (\E i \in Slots : Saving(i))
             \/ \E id \in 0..ProfilesMax : Switching(id)
  BY <1>1, <1>2, Tuples DEF Resting, Erasing, Loading, Choosing, Saving, Switching, Switch, Overlay, Active,
                            Hold, Save, Erase
<1>3. ASSUME NEW i \in Slots, Deleting(i)
      PROVE  Head(todo).id = i /\ Same /\ SameChoice /\ active # i /\ todo' = <<Save(i)>>
  <2>1. /\ todo # <<Switch(0, FALSE), Overlay, Active, Drop(i), Save(i)>>
        /\ todo # <<Overlay, Active, Drop(i), Save(i)>> /\ todo # <<Active, Drop(i), Save(i)>>
    BY <1>1, Tuples DEF Switch, Overlay, Active
  <2>2. todo = <<Drop(i), Save(i)>> => Head(todo) = Drop(i) /\ todo' = <<Save(i)>>
    BY <1>1, Tuples
  <2>3. Drop(i).id = i
    BY DEF Drop
  <2> QED
    BY <1>3, <2>1, <2>2, <2>3, Zenon DEF Deleting
<1> QED
  BY <1>2, <1>3 DEF LockInv

LEMMA EraseNext ==
    ASSUME LockInv, Doing("erase")
    PROVE  todo' = <<>> /\ web.pc = "values"
<1>1. todo' = Tail(todo) /\ todo # <<>> /\ Head(todo).do = "erase"
  BY DEF Doing
<1>2. CASE Resting \/ Loading \/ Choosing \/ (\E i \in Slots : Saving(i) \/ Deleting(i))
             \/ \E id \in 0..ProfilesMax : Switching(id)
  BY <1>1, <1>2, Tuples DEF Resting, Loading, Choosing, Saving, Deleting, Switching, Switch, Overlay, Active,
                            Hold, Save, Drop
<1>3. CASE Erasing
  BY <1>1, <1>3, Tuples DEF Erasing
<1> QED
  BY <1>2, <1>3 DEF LockInv

----------------------------------------------------------------------------
(* Types. *)
LEMMA FaceIs ==
    /\ Nobody \in Faces
    /\ \A d \in Faces : \A l \in Looks(d) : l \in Faces /\ l.cec \in {NoName, d.cec}
<1>1. NoName \in Words
  BY DEF Words
<1>2. Nobody = [cec |-> NoName, os |-> NoName] /\ \A d : Looks(d) = {Nobody, [d EXCEPT !.cec = NoName], d}
  BY DEF Nobody, Looks, NoName
<1>3. Nobody \in Faces /\ Nobody.cec = NoName
  BY <1>1, <1>2 DEF Faces
<1>4. ASSUME NEW d \in Faces
      PROVE  [d EXCEPT !.cec = NoName] \in Faces /\ [d EXCEPT !.cec = NoName].cec = NoName
  BY <1>1 DEF Faces
<1> QED
  BY <1>2, <1>3, <1>4

LEMMA FreshIs ==
    /\ Unused \in OwnRec /\ Fresh \in NvRec
    /\ Fresh.prof = [i \in Slots |-> Unused] /\ Fresh.active = 0 /\ Fresh.byHand = FALSE
    /\ Fresh.restarts = 0 /\ Fresh.cec = NoName
<1>0. Fresh = [base |-> Def, prof |-> [i \in Slots |-> Unused], active |-> 0, byHand |-> FALSE,
               seen |-> Nobody, restarts |-> 0, cec |-> NoName]
  BY DEF Fresh, NoName
<1>1. Unused \in OwnRec
  BY FaceIs DEF Unused, OwnRec
<1>2. [i \in Slots |-> Unused] \in Own
  BY <1>1 DEF Own
<1>3. 0 \in 0..ProfilesMax /\ Def \in Values /\ 0 \in Nat
  BY ProfilesAssumption
<1>4. NoName \in Words
  BY DEF Words
<1>5. FALSE \in BOOLEAN
  OBVIOUS
<1>6. Fresh \in NvRec
  BY <1>0, <1>2, <1>3, <1>4, <1>5, FaceIs DEF NvRec
<1> QED
  BY <1>0, <1>1, <1>6

LEMMA LeastOf == ASSUME NEW S \in SUBSET Nat, S # {} PROVE \E x \in S : \A y \in S : x <= y
<1>1. IsWellFoundedOn(OpToRel(<, Nat), Nat)
  BY NatLessThanWellFounded
<1>2. \E x \in S : \A y \in S : ~(<<y, x>> \in OpToRel(<, Nat))
  BY <1>1, WFMin
<1>3. PICK x \in S : \A y \in S : ~(<<y, x>> \in OpToRel(<, Nat))
  BY <1>2
<1>4. \A y \in S : ~(y < x)
  BY <1>3 DEF OpToRel
<1> QED
  BY <1>4

(* kvm_prof_pick finds a profile, the first of those that score most.      *)
LEMMA PickIs == ASSUME NEW look PROVE Pick(look) \in 0..ProfilesMax
<1> DEFINE fits == {i \in Slots : ScoreOf(i, look) > 0}
<1> DEFINE sc(i) == ScoreOf(i, look)
<1>1. \A i \in Slots : sc(i) \in 0..3 /\ i \in Nat
  <2>1. \A r : Score(r, look) \in 0..3
    <3> TAKE r
    <3> DEFINE x == IF r.cec = "" THEN 0 ELSE 2
               y == IF r.os = "" THEN 0 ELSE 1
               no == (r.cec # "" /\ r.cec # look.cec) \/ (r.os # "" /\ r.os # look.os)
    <3>1. x \in {0, 2} /\ y \in {0, 1}
      OBVIOUS
    <3>2. Score(r, look) = IF no THEN 0 ELSE x + y
      BY DEF Score
    <3> HIDE DEF x, y, no
    <3> QED
      BY <3>1, <3>2
  <2> QED
    BY <2>1 DEF ScoreOf, Slots
<1>2. CASE fits = {}
  BY <1>2, ProfilesAssumption DEF Pick
<1>3. CASE fits # {}
  <2>0. fits \subseteq Slots
    OBVIOUS
  <2> DEFINE S == {3 - sc(i) : i \in fits}
  <2> HIDE DEF fits, sc
  <2>1. S \in SUBSET Nat /\ S # {}
    BY <1>1, <1>3, <2>0
  <2>2. PICK x \in S : \A y \in S : x <= y
    BY <2>1, LeastOf
  <2> DEFINE T == {i \in fits : 3 - sc(i) = x}
  <2>3. T \in SUBSET Nat /\ T # {}
    BY <1>1, <2>0, <2>2
  <2>4. PICK i \in T : \A j \in T : i <= j
    BY <2>3, LeastOf
  <2>5. ASSUME NEW j \in fits PROVE sc(i) > sc(j) \/ (sc(i) = sc(j) /\ i <= j)
    <3>1. 3 - sc(i) = x /\ x <= 3 - sc(j) /\ sc(i) \in 0..3 /\ sc(j) \in 0..3
      BY <1>1, <2>0, <2>2, <2>4
    <3>2. CASE 3 - sc(j) = x
      BY <2>4, <3>1, <3>2
    <3>3. CASE 3 - sc(j) # x
      BY <3>1, <3>3
    <3> QED
      BY <3>2, <3>3
  <2>6. i \in fits
    BY <2>4
  <2>7. \E k \in fits : \A j \in fits : sc(k) > sc(j) \/ (sc(k) = sc(j) /\ k <= j)
    BY <2>5, <2>6
  <2>8. (CHOOSE k \in fits : \A j \in fits : sc(k) > sc(j) \/ (sc(k) = sc(j) /\ k <= j)) \in fits
    BY <2>7
  <2>9. Pick(look) \in Slots
    BY <1>3, <2>0, <2>8 DEF Pick, fits, sc
  <2> QED
    BY <2>9, ProfilesAssumption DEF Slots
<1> QED
  BY <1>2, <1>3

LEMMA ZeroIs == 0 \in 0..ProfilesMax /\ 0 \in 0..2
BY ProfilesAssumption

LEMMA HandIs == NoHand \in HandRec
BY FaceIs, ZeroIs DEF NoHand, HandRec

(* What a boot makes of flash.                                             *)
LEMMA BootIs ==
    ASSUME ProfTypes, nv.active = 0 \/ nv.prof[nv.active].used, Booted(nv)
    PROVE  /\ base' = nv.base /\ prof' = nv.prof /\ active' = nv.active
           /\ over' = (IF nv.active = 0 THEN NoVal ELSE nv.prof[nv.active].set)
           /\ byHand' = (nv.active # 0 /\ nv.byHand)
           /\ seenFp' = Nobody /\ todo' = <<>> /\ web' = WebIdle /\ auto' = AutoIdle
           /\ strayed' = FALSE
<1>1. BootActive(nv) = nv.active
  BY DEF BootActive
<1>2. BootOver(nv) = IF nv.active = 0 THEN NoVal ELSE nv.prof[nv.active].set
  BY <1>1 DEF BootOver
<1> QED
  BY <1>1, <1>2 DEF Booted

LEMMA DoTypes ==
    ASSUME ProfTypes, LockInv,
           DoSwitch \/ DoOverlay \/ DoManual \/ DoHold \/ DoSave \/ DoDrop \/ DoErase
    PROVE  ProfTypes'
<1> USE DEF ProfTypes
<1>0. \A i \in Slots : i \in 0..ProfilesMax
  BY ProfilesAssumption DEF Slots
<1>a. active # 0 => active \in Slots
  BY ProfilesAssumption DEF Slots
<1>1. CASE DoSwitch
  <2>1. Doing("switch") /\ active' = Head(todo).id /\ byHand' = Head(todo).hand /\ hand' = NoHand
    BY <1>1 DEF DoSwitch
  <2>3. PICK id \in 0..ProfilesMax, h \in BOOLEAN : Head(todo) = Switch(id, h)
    BY <2>1, SwitchNext
  <2>4. active' = id /\ byHand' = h
    BY <2>1, <2>3 DEF Switch
  <2>2. active' \in 0..ProfilesMax /\ byHand' \in BOOLEAN
    BY <2>4
  <2> QED
    BY <1>1, <2>1, <2>2, HandIs DEF DoSwitch, Doing
<1>2. CASE DoOverlay
  <2>1. over' \in Values \cup {NoVal}
    BY <1>2, <1>a DEF DoOverlay, Own, OwnRec
  <2>2. strayed' \in BOOLEAN
    BY <1>2 DEF DoOverlay
  <2> QED
    BY <1>2, <2>1, <2>2 DEF DoOverlay, Doing
<1>3. CASE DoManual
  <2>1. nv' \in NvRec
    BY <1>3 DEF DoManual, NvRec
  <2> QED
    BY <1>3, <2>1 DEF DoManual, Doing
<1>4. CASE DoHold
  <2>1. nv' \in NvRec
    BY <1>4 DEF DoHold, NvRec
  <2>2. hand' \in HandRec
    BY <1>4, HandIs DEF DoHold, HandRec
  <2> QED
    BY <1>4, <2>1, <2>2 DEF DoHold, Doing
<1>5. CASE DoSave
  <2>1. PICK i \in Slots : Head(todo).id = i
    BY <1>5, SaveNext DEF DoSave
  <2>2. nv' = [nv EXCEPT !.prof = [nv.prof EXCEPT ![i] = prof[i]]]
    BY <1>5, <2>1 DEF DoSave
  <2>3. [nv.prof EXCEPT ![i] = prof[i]] \in Own
    BY DEF NvRec, Own
  <2>4. nv' \in NvRec
    BY <2>2, <2>3 DEF NvRec
  <2> QED
    BY <1>5, <2>4 DEF DoSave, Doing
<1>6. CASE DoDrop
  <2>1. PICK i \in Slots : Head(todo).id = i
    BY <1>6, DropNext DEF DoDrop
  <2>2. prof' \in Own
    BY <1>6, <2>1, FreshIs DEF DoDrop, Own
  <2> QED
    BY <1>6, <2>2 DEF DoDrop, Doing
<1>7. CASE DoErase
  <2>1. nv' \in NvRec
    BY <1>7, FreshIs DEF DoErase, NvRec
  <2>2. inRow' \in Int
    BY <1>7 DEF DoErase, StartAgain
  <2> QED
    BY <1>7, <2>1, <2>2, HandIs DEF DoErase, Doing
<1> QED
  BY <1>1, <1>2, <1>3, <1>4, <1>5, <1>6, <1>7

LEMMA CallTypes ==
    ASSUME ProfTypes, LockInv,
           \/ \E r \in Rules, v \in OwnValues, s \in BOOLEAN : CreateProfile(r, v, s)
           \/ \E i \in Slots, r \in Rules, v \in Values \cup {NoVal} : UpdateProfile(i, r, v)
           \/ \E i \in Slots : DeleteProfile(i)
           \/ \E id \in 0..ProfilesMax : SelectByHand(id)
           \/ \E v \in Values : SetValue(v)
           \/ PersistValue \/ StoreValue \/ ResetFlash \/ ResetProfiles \/ ResetValues
    PROVE  ProfTypes'
<1> USE DEF ProfTypes
<1>a. active # 0 => active \in Slots
  BY ProfilesAssumption DEF Slots
<1>b. Rules \subseteq Faces
  BY ProfilesAssumption DEF Faces, Words
<1>c. Def \in Values /\ WebIdle \in WebRec
  BY ProfilesAssumption DEF WebIdle, WebRec
<1>1. ASSUME NEW r \in Rules, NEW v \in OwnValues, NEW s \in BOOLEAN, CreateProfile(r, v, s) PROVE ProfTypes'
  <2>1. v \in Values \cup {NoVal}
    BY <1>a DEF OwnValues, Own, OwnRec
  <2>2. PICK i \in Slots : prof' = [prof EXCEPT ![i] = [used |-> TRUE, set |-> v, rule |-> r]]
    BY <1>1 DEF CreateProfile
  <2>3. TRUE \in BOOLEAN
    OBVIOUS
  <2>4. [used |-> TRUE, set |-> v, rule |-> r] \in OwnRec
    BY <1>b, <2>1, <2>3 DEF OwnRec
  <2>5. prof' \in Own
    BY <2>2, <2>4 DEF Own
  <2> QED
    BY <1>1, <2>5 DEF CreateProfile, CallUnchanged
<1>2. ASSUME NEW i \in Slots, NEW r \in Rules, NEW v \in Values \cup {NoVal}, UpdateProfile(i, r, v)
      PROVE  ProfTypes'
  <2>1. prof' = [prof EXCEPT ![i] = [prof[i] EXCEPT !.set = v, !.rule = r]]
    BY <1>2 DEF UpdateProfile, Own
  <2>2. [prof[i] EXCEPT !.set = v, !.rule = r] \in OwnRec
    BY <1>b DEF Own, OwnRec
  <2>3. prof' \in Own
    BY <2>1, <2>2 DEF Own
  <2> QED
    BY <1>2, <2>3 DEF UpdateProfile, CallUnchanged
<1>3. ASSUME NEW i \in Slots, DeleteProfile(i) PROVE ProfTypes'
  BY <1>3 DEF DeleteProfile, CallUnchanged
<1>4. ASSUME NEW id \in 0..ProfilesMax, SelectByHand(id) PROVE ProfTypes'
  BY <1>4 DEF SelectByHand, CallUnchanged
<1>5. ASSUME NEW v \in Values, SetValue(v) PROVE ProfTypes'
  <2>1. base' \in Values /\ over' \in Values \cup {NoVal}
    BY <1>5 DEF SetValue
  <2>2. web' \in WebRec
    BY <1>5, <1>c DEF SetValue, WebRec
  <2>3. strayed' \in BOOLEAN
    BY <1>5 DEF SetValue
  <2> QED
    BY <1>5, <2>1, <2>2, <2>3 DEF SetValue
<1>6. CASE PersistValue
  <2>1. nv' \in NvRec
    BY <1>6 DEF PersistValue, NvRec, WebRec
  <2> QED
    BY <1>6, <1>c, <2>1 DEF PersistValue, WebUnchanged
<1>7. CASE StoreValue
  <2>1. prof' \in Own
    <3>1. CASE active = 0
      BY <1>7, <3>1 DEF StoreValue
    <3>2. CASE active # 0
      <4>1. prof' = [prof EXCEPT ![active] = [prof[active] EXCEPT !.set = web.v]]
        BY <1>7, <3>2 DEF StoreValue
      <4>2. [prof[active] EXCEPT !.set = web.v] \in OwnRec
        BY <1>a, <3>2 DEF Own, OwnRec, WebRec
      <4> QED
        BY <4>1, <4>2 DEF Own
    <3> QED
      BY <3>1, <3>2
  <2> QED
    BY <1>7, <1>c, <2>1 DEF StoreValue, WebUnchanged
<1>8. CASE ResetFlash
  <2>1. nv' \in NvRec /\ web' \in WebRec
    BY <1>8, <1>c DEF ResetFlash, NvRec, WebRec
  <2> QED
    BY <1>8, <2>1 DEF ResetFlash
<1>9. CASE ResetProfiles
  <2>1. prof' \in Own /\ web' \in WebRec
    BY <1>9, FreshIs DEF ResetProfiles, NvRec, WebRec
  <2>2. active' \in 0..ProfilesMax
    BY <1>9, ProfilesAssumption DEF ResetProfiles
  <2>3. byHand' \in BOOLEAN
    BY <1>9 DEF ResetProfiles
  <2> QED
    BY <1>9, <2>1, <2>2, <2>3 DEF ResetProfiles
<1>10. CASE ResetValues
  BY <1>10, <1>c DEF ResetValues, WebUnchanged
<1> QED
  BY <1>1, <1>2, <1>3, <1>4, <1>5, <1>6, <1>7, <1>8, <1>9, <1>10

LEMMA AutoTypes ==
    ASSUME ProfTypes, LockInv,
           \/ \E look \in Looks(dev) : AutoTick(look)
           \/ AutoAsk \/ AutoPick \/ AutoSelect \/ AutoValues
           \/ AutoAllow \/ AutoCec \/ AutoRestart \/ Calm \/ ProfCrash \/ Swap
    PROVE  ProfTypes'
<1> USE DEF ProfTypes
<1>0. FALSE \in BOOLEAN /\ TRUE \in BOOLEAN
  OBVIOUS
<1>1. ASSUME NEW look \in Looks(dev), AutoTick(look) PROVE ProfTypes'
  <2>1. look \in Faces
    BY FaceIs
  <2>2. auto' \in AutoRec
    <3>1. CASE look # auto.last
      <4>1. auto' = [auto EXCEPT !.last = look, !.still = 0]
        BY <1>1, <3>1 DEF AutoTick
      <4> QED
        BY <2>1, <4>1, ZeroIs DEF AutoRec
    <3>2. CASE look = auto.last
      <4> DEFINE n == IF auto.still = 2 THEN 2 ELSE auto.still + 1
      <4>1. n \in 0..2
        BY DEF AutoRec
      <4>2. auto' = [auto EXCEPT !.still = n, !.acted = look, !.pc = "ask"]
              \/ auto' = [auto EXCEPT !.still = n, !.pc = "values"]
        BY <1>1, <3>2 DEF AutoTick
      <4> HIDE DEF n
      <4> QED
        BY <2>1, <4>1, <4>2 DEF AutoRec, AutoPcs
    <3> QED
      BY <3>1, <3>2
  <2> QED
    BY <1>1, <2>1, <2>2 DEF AutoTick, AutoAt, AutoUnchanged
<1>2. CASE AutoAsk
  <2> DEFINE same == nv.seen = auto.last
  <2>1. same \in BOOLEAN
    OBVIOUS
  <2>2. auto' = [auto EXCEPT !.pc = "values"] \/ auto' = [auto EXCEPT !.pc = "pick", !.same = same]
    BY <1>2 DEF AutoAsk
  <2> HIDE DEF same
  <2>3. auto' \in AutoRec
    BY <2>1, <2>2 DEF AutoRec, AutoPcs
  <2> DEFINE n == IF NewSource(auto.last) THEN 0 ELSE nv.restarts
  <2>4. n \in Nat
    BY DEF NvRec
  <2>5. nv' = [nv EXCEPT !.seen = auto.last, !.restarts = n]
    BY <1>2 DEF AutoAsk
  <2> HIDE DEF n
  <2>6. nv' \in NvRec
    BY <2>4, <2>5 DEF NvRec, AutoRec
  <2>7. hand' \in HandRec
    BY <1>2, HandIs DEF AutoAsk
  <2> QED
    BY <1>2, <2>3, <2>6, <2>7 DEF AutoAsk, AutoAt, AutoUnchanged
<1>3. CASE AutoPick
  <2>1. auto' = [auto EXCEPT !.pc = "values", !.same = FALSE]
          \/ auto' = [auto EXCEPT !.pc = "select", !.id = Pick(auto.last)]
    BY <1>3 DEF AutoPick
  <2>3. Pick(auto.last) \in 0..ProfilesMax
    BY PickIs
  <2>2. auto' \in AutoRec
    BY <1>0, <2>1, <2>3 DEF AutoRec, AutoPcs
  <2> QED
    BY <1>3, <2>2 DEF AutoPick, AutoAt, AutoUnchanged
<1>4. CASE AutoSelect
  <2>2. auto' = [auto EXCEPT !.pc = "values", !.same = FALSE, !.id = 0]
    BY <1>4 DEF AutoSelect
  <2>1. auto' \in AutoRec
    BY <1>0, <2>2, ZeroIs DEF AutoRec, AutoPcs
  <2> QED
    BY <1>4, <2>1 DEF AutoSelect, AutoAt, AutoUnchanged
<1>5. CASE AutoValues
  <2>1. auto' = [auto EXCEPT !.pc = "allow"] \/ auto' = [auto EXCEPT !.pc = "idle"]
    BY <1>5 DEF AutoValues
  <2>2. auto' \in AutoRec
    BY <2>1 DEF AutoRec, AutoPcs
  <2> QED
    BY <1>5, <2>2 DEF AutoValues, AutoAt, AutoUnchanged
<1>6. CASE AutoAllow
  <2>1. auto' \in AutoRec
    BY <1>6 DEF AutoAllow, AutoRec, AutoPcs
  <2>2. nv' \in NvRec
    BY <1>6 DEF AutoAllow, NvRec
  <2> QED
    BY <1>6, <2>1, <2>2 DEF AutoAllow, AutoAt, AutoUnchanged
<1>7. CASE AutoCec
  <2>1. auto' \in AutoRec
    BY <1>7 DEF AutoCec, AutoRec, AutoPcs
  <2>2. nv' \in NvRec
    BY <1>7 DEF AutoCec, NvRec, Faces
  <2> QED
    BY <1>7, <2>1, <2>2 DEF AutoCec, AutoAt, AutoUnchanged
<1>8. CASE Calm
  <2>1. nv' \in NvRec
    BY <1>8 DEF Calm, NvRec
  <2> QED
    BY <1>8, <2>1 DEF Calm, AutoAt, AutoUnchanged
<1>9. CASE AutoRestart \/ ProfCrash
  <2>1. Booted(nv) /\ UNCHANGED <<nv, dev, hand>> /\ inRow' \in Int
    BY <1>9 DEF AutoRestart, ProfCrash
  <2>2. /\ base' = nv.base /\ prof' = nv.prof /\ active' = nv.active
        /\ over' = (IF nv.active = 0 THEN NoVal ELSE nv.prof[nv.active].set)
        /\ byHand' = (nv.active # 0 /\ nv.byHand)
        /\ seenFp' = Nobody /\ web' = WebIdle /\ auto' = AutoIdle /\ strayed' = FALSE
    BY <2>1, BootIs DEF LockInv
  <2>3. nv.active # 0 => nv.active \in Slots
    BY ProfilesAssumption DEF NvRec, Slots
  <2>4. over' \in Values \cup {NoVal}
    BY <2>2, <2>3 DEF NvRec, Own, OwnRec
  <2>5. byHand' \in BOOLEAN /\ strayed' \in BOOLEAN
    BY <2>2
  <2>6. AutoIdle \in AutoRec
    BY <1>0, FaceIs, ZeroIs DEF AutoIdle, AutoRec, AutoPcs
  <2>7. WebIdle \in WebRec
    BY ProfilesAssumption DEF WebIdle, WebRec
  <2> QED
    BY <2>1, <2>2, <2>4, <2>5, <2>6, <2>7, FaceIs DEF NvRec
<1>10. CASE Swap
  <2>1. dev' \in Faces /\ inRow' = 0 /\ UNCHANGED <<keepVars, nv, auto, strayed, hand>>
    BY <1>10, ProfilesAssumption DEF Swap, Faces, Words
  <2> QED
    BY <2>1 DEF keepVars
<1> QED
  BY <1>1, <1>2, <1>3, <1>4, <1>5, <1>6, <1>7, <1>8, <1>9, <1>10

(* The first key of a choice changes one field of flash.                   *)
LEMMA KeyWritten ==
    ASSUME ProfTypes, DoActive
    PROVE  /\ nv' \in NvRec /\ nv'.active = active
           /\ nv'.base = nv.base /\ nv'.prof = nv.prof /\ nv'.byHand = nv.byHand
           /\ nv'.restarts = nv.restarts /\ nv'.cec = nv.cec
           /\ UNCHANGED <<base, over, prof, active, byHand, seenFp, todo, web, auto, dev, strayed,
                         hand, undone, inRow>>
<1>1. nv \in NvRec /\ active \in 0..ProfilesMax
  BY DEF ProfTypes
<1>2. nv' = [nv EXCEPT !.active = active]
  BY DEF DoActive
<1>3. UNCHANGED <<base, over, prof, active, byHand, seenFp, todo, web, auto, dev, strayed,
                  hand, undone, inRow>>
  BY DEF DoActive, keepVars
<1> QED
  BY <1>1, <1>2, <1>3 DEF NvRec

----------------------------------------------------------------------------
(* The count of restarts. *)
LEMMA StepRow == ASSUME ProfTypes, LockInv, RowInv, [ProfNext]_profVars PROVE RowInv'
<1> DEFINE Kept == /\ UNCHANGED <<auto, seenFp, dev, inRow>>
                   /\ nv'.restarts = nv.restarts /\ nv'.cec = nv.cec
<1>0. nv \in NvRec /\ auto \in AutoRec /\ inRow \in Int /\ RestartsMax \in Nat
      /\ nv.restarts \in Nat /\ seenFp \in Faces /\ dev \in Faces
  BY ProfilesAssumption DEF ProfTypes, NvRec
<1>d. \A x : (IF x \in {"cec", "restart"} THEN 1 ELSE 0) \in {0, 1}
  OBVIOUS
<1>e. Decided \in {0, 1} /\ Decided' \in {0, 1}
  BY <1>d DEF Decided
<1>f. inRow + Decided <= nv.restarts
  BY DEF RowInv, Counted
<1>1. ASSUME Kept PROVE RowInv'
  BY <1>1 DEF RowInv, Counted, Decided
<1>2. CASE DoSwitch \/ DoOverlay \/ DoManual \/ DoHold \/ DoDrop
  <2>1. Kept
    BY <1>0, <1>2 DEF DoSwitch, DoOverlay, DoManual, DoHold, DoDrop, Doing, NvRec
  <2> QED
    BY <1>1, <2>1
<1>a. CASE DoActive
  BY <1>1, <1>a, KeyWritten
<1>3. CASE DoSave
  <2>1. Kept
    BY <1>0, <1>3 DEF DoSave, Doing, NvRec
  <2> QED
    BY <1>1, <2>1
<1>4. CASE DoErase
  <2>1. /\ nv' = [Fresh EXCEPT !.base = nv.base] /\ UNCHANGED <<auto, seenFp, dev>>
        /\ inRow' = IF auto.pc \in {"cec", "restart"} THEN -1 ELSE 0
    BY <1>4 DEF DoErase, Doing, StartAgain
  <2>2. nv'.restarts = 0 /\ nv'.cec = NoName
    BY <2>1, FreshIs DEF NvRec
  <2>3. CASE auto.pc \in {"cec", "restart"}
    <3>1. inRow' = -1 /\ Decided' = 1
      BY <2>1, <2>3 DEF Decided
    <3> QED
      BY <1>0, <2>1, <2>2, <3>1 DEF RowInv, Counted
  <2>4. CASE auto.pc \notin {"cec", "restart"}
    <3>1. inRow' = 0 /\ Decided' = 0
      BY <2>1, <2>4 DEF Decided
    <3>2. Counted'
      BY <2>2, <3>1 DEF Counted
    <3> QED
      BY <1>0, <2>1, <2>2, <3>1, <3>2 DEF RowInv
  <2> QED
    BY <2>3, <2>4
<1>5. CASE \/ \E r \in Rules, v \in OwnValues, s \in BOOLEAN : CreateProfile(r, v, s)
           \/ \E i \in Slots, r \in Rules, v \in Values \cup {NoVal} : UpdateProfile(i, r, v)
           \/ \E i \in Slots : DeleteProfile(i)
           \/ \E id \in 0..ProfilesMax : SelectByHand(id)
           \/ \E v \in Values : SetValue(v)
  <2>1. Kept
    BY <1>5 DEF CreateProfile, UpdateProfile, DeleteProfile, SelectByHand, SetValue, CallUnchanged
  <2> QED
    BY <1>1, <2>1
<1>6. CASE PersistValue \/ StoreValue \/ ResetFlash \/ ResetProfiles \/ ResetValues
  <2>1. Kept
    BY <1>0, <1>6 DEF PersistValue, StoreValue, ResetFlash, ResetProfiles, ResetValues, WebUnchanged, NvRec
  <2> QED
    BY <1>1, <2>1
<1>7. ASSUME NEW look \in Looks(dev), AutoTick(look) PROVE RowInv'
  <2>1. /\ auto.pc = "idle" /\ seenFp' = look /\ look.cec \in {NoName, dev.cec}
        /\ UNCHANGED <<nv, dev, inRow>>
    BY <1>0, <1>7, FaceIs DEF AutoTick, AutoAt
  <2>2. auto'.pc \in {"idle", "ask", "values"} /\ (auto'.pc # "idle" => auto'.last = look)
    <3>1. CASE look # auto.last
      BY <1>0, <1>7, <2>1, <3>1 DEF AutoTick, AutoRec
    <3>2. CASE look = auto.last
      <4> DEFINE n == IF auto.still = 2 THEN 2 ELSE auto.still + 1
      <4>1. auto' = [auto EXCEPT !.still = n, !.acted = look, !.pc = "ask"]
              \/ auto' = [auto EXCEPT !.still = n, !.pc = "values"]
        BY <1>7, <3>2 DEF AutoTick
      <4> HIDE DEF n
      <4> QED
        BY <1>0, <3>2, <4>1 DEF AutoRec
    <3> QED
      BY <3>1, <3>2
  <2>d. Decided = 0 /\ Decided' = 0
    BY <2>1, <2>2 DEF Decided
  <2>e. Counted'
    BY <1>0, <1>f, <2>1, <2>d DEF Counted
  <2> QED
    BY <1>0, <1>e, <2>e, <2>1, <2>2 DEF RowInv
<1>8. CASE AutoAsk
  <2>1. /\ auto.pc = "ask" /\ UNCHANGED <<seenFp, dev, inRow>>
        /\ auto'.pc \in {"values", "pick"} /\ auto'.last = auto.last
    BY <1>0, <1>8 DEF AutoAsk, AutoAt, AutoRec
  <2>2. nv' = [nv EXCEPT !.seen = auto.last, !.restarts = IF NewSource(auto.last) THEN 0 ELSE nv.restarts]
    BY <1>8 DEF AutoAsk
  <2>3. nv'.cec = nv.cec /\ nv'.restarts = IF NewSource(auto.last) THEN 0 ELSE nv.restarts
    BY <1>0, <2>2 DEF NvRec
  <2>5. NewSource(auto.last) => auto.last.cec # NoName /\ nv.cec # NoName /\ nv.cec # auto.last.cec
    BY DEF NewSource, NoName
  <2>4. NewSource(auto.last) => ~(inRow > 0)
    BY <2>1, <2>5 DEF RowInv
  <2>d. Decided = 0 /\ Decided' = 0
    BY <2>1 DEF Decided
  <2>e. Counted'
    BY <1>0, <1>f, <2>1, <2>3, <2>4, <2>d DEF Counted
  <2> QED
    BY <1>0, <1>e, <2>e, <2>1, <2>3, <2>4 DEF RowInv
<1>9. CASE AutoPick \/ AutoSelect \/ AutoValues
  <2>1. /\ auto.pc \in {"pick", "select", "values"} /\ UNCHANGED <<seenFp, dev, inRow, nv>>
        /\ auto'.pc \in {"values", "select", "allow", "idle"} /\ auto'.last = auto.last
    BY <1>0, <1>9 DEF AutoPick, AutoSelect, AutoValues, AutoAt, AutoRec
  <2>d. Decided = 0 /\ Decided' = 0
    BY <2>1 DEF Decided
  <2>e. Counted'
    BY <1>0, <1>f, <2>1, <2>d DEF Counted
  <2> QED
    BY <1>0, <1>e, <2>e, <2>1 DEF RowInv
<1>10. CASE AutoAllow
  <2>1. auto.pc = "allow" /\ UNCHANGED <<seenFp, dev, inRow>> /\ auto'.last = auto.last
    BY <1>0, <1>10 DEF AutoAllow, AutoAt, AutoRec
  <2>2. CASE nv.restarts >= RestartsMax
    <3>1. auto'.pc = "idle" /\ nv' = nv
      BY <1>0, <1>10, <2>2 DEF AutoAllow, AutoRec
    <3>2. Decided = 0 /\ Decided' = 0
      BY <2>1, <3>1 DEF Decided
    <3>3. Counted'
      BY <1>0, <1>f, <2>1, <3>1, <3>2 DEF Counted
    <3> QED
      BY <1>0, <2>1, <3>1, <3>3 DEF RowInv
  <2>3. CASE ~(nv.restarts >= RestartsMax)
    <3>1. auto'.pc = "cec" /\ nv'.cec = nv.cec /\ nv'.restarts = nv.restarts + 1
      BY <1>0, <1>10, <2>3 DEF AutoAllow, AutoRec, NvRec
    <3>2. Decided = 0 /\ Decided' = 1
      BY <2>1, <3>1 DEF Decided
    <3>3. Counted'
      BY <1>0, <1>f, <2>1, <3>1, <3>2 DEF Counted
    <3> QED
      BY <1>0, <2>1, <2>3, <3>1, <3>3 DEF RowInv
  <2> QED
    BY <2>2, <2>3
<1>11. CASE AutoCec
  <2>1. /\ auto.pc = "cec" /\ UNCHANGED <<seenFp, dev, inRow>>
        /\ auto'.pc = "restart" /\ auto'.last = auto.last
        /\ nv'.cec = seenFp.cec /\ nv'.restarts = nv.restarts
    BY <1>0, <1>11 DEF AutoCec, AutoAt, AutoRec, NvRec
  <2>d. Decided = 1 /\ Decided' = 1
    BY <2>1 DEF Decided
  <2>e. Counted'
    BY <1>0, <1>f, <2>1, <2>d DEF Counted
  <2> QED
    BY <1>0, <1>e, <2>e, <2>1 DEF RowInv
<1>12. CASE Calm
  <2>1. /\ auto.pc = "idle" /\ inRow' = 0 /\ UNCHANGED <<seenFp, dev, auto>>
        /\ nv'.cec = nv.cec /\ nv'.restarts = 0
    BY <1>0, <1>12 DEF Calm, AutoAt, NvRec
  <2>d. Decided = 0 /\ Decided' = 0
    BY <2>1 DEF Decided
  <2>e. Counted'
    BY <2>1, <2>d DEF Counted
  <2> QED
    BY <1>0, <1>e, <2>e, <2>1 DEF RowInv
<1>13. CASE AutoRestart
  <2>1. auto.pc = "restart" /\ auto'.pc = "idle" /\ inRow' = inRow + 1 /\ UNCHANGED <<nv, dev>>
    BY <1>13 DEF AutoRestart, Booted, AutoIdle
  <2>d. Decided = 1 /\ Decided' = 0
    BY <2>1 DEF Decided
  <2>e. Counted'
    BY <1>0, <1>f, <2>1, <2>d DEF Counted
  <2> QED
    BY <1>0, <1>e, <2>e, <2>1 DEF RowInv
<1>14. CASE ProfCrash
  <2>1. auto'.pc = "idle" /\ UNCHANGED <<nv, dev, inRow>>
    BY <1>14 DEF ProfCrash, Booted, AutoIdle
  <2>d. Decided' = 0
    BY <2>1 DEF Decided
  <2>e. Counted'
    BY <1>0, <1>e, <1>f, <2>1, <2>d DEF Counted
  <2> QED
    BY <1>0, <1>e, <2>e, <2>1 DEF RowInv
<1>15. CASE Swap
  <2>1. auto.pc = "idle" /\ inRow' = 0 /\ UNCHANGED <<nv, auto>>
    BY <1>15 DEF Swap
  <2>d. Decided = 0 /\ Decided' = 0
    BY <2>1 DEF Decided
  <2>e. Counted'
    BY <1>0, <2>1, <2>d DEF Counted
  <2> QED
    BY <1>0, <1>e, <2>e, <2>1 DEF RowInv
<1>16. CASE UNCHANGED profVars
  <2>1. Kept
    BY <1>16 DEF profVars, keepVars
  <2> QED
    BY <1>1, <2>1
<1> QED
  BY <1>2, <1>3, <1>4, <1>5, <1>6, <1>7, <1>8, <1>9, <1>10, <1>11, <1>12, <1>13, <1>14, <1>15, <1>16,
     <1>a
  DEF ProfNext

----------------------------------------------------------------------------
(* The lock and flash. *)
LEMMA LockKept ==
    ASSUME LockInv, UNCHANGED <<prof, active, byHand, todo>>,
           nv'.prof = nv.prof, nv'.active = nv.active, nv'.byHand = nv.byHand,
           web'.pc = web.pc \/ (web.pc # "values" /\ web'.pc # "values")
    PROVE  LockInv'
<1>1. /\ Same' = Same /\ SameChoice' = SameChoice /\ \A i : SameBut(i)' = SameBut(i)
      /\ \A i : Usable(i)' = Usable(i)
  BY DEF Same, SameChoice, SameBut, Usable
<1>2. Resting' = Resting /\ Loading' = Loading /\ Choosing' = Choosing
  BY <1>1 DEF Resting, Loading, Choosing
<1>3. Erasing => Erasing'
  BY DEF Erasing
<1>4. \A i \in Slots : Saving(i) => Saving(i)'
  BY <1>1 DEF Saving
<1>5. \A i \in Slots : Deleting(i) => Deleting(i)'
  BY <1>1 DEF Deleting
<1>6. \A i \in 0..ProfilesMax : Switching(i) => Switching(i)'
  BY <1>1 DEF Switching
<1>7. Usable(active)' /\ (nv.active = 0 \/ nv.prof[nv.active].used)'
  BY <1>1 DEF LockInv
<1>8. (web.pc = "values" => active = 0 /\ byHand = FALSE /\ prof = Fresh.prof
                             /\ (todo = <<>> \/ todo = <<Erase>>))'
  BY DEF LockInv
<1>9. (\/ Resting \/ Erasing \/ Loading \/ Choosing
       \/ \E i \in Slots : Saving(i) \/ Deleting(i)
       \/ \E id \in 0..ProfilesMax : Switching(id))'
  BY <1>2, <1>3, <1>4, <1>5, <1>6 DEF LockInv
<1> QED
  BY <1>7, <1>8, <1>9 DEF LockInv

(* Nobody is at work when the lock is free.                                *)
LEMMA LockFreeIs == ASSUME LockInv, LockFree PROVE Same /\ SameChoice
<1>1. todo = <<>>
  BY DEF LockFree
<1>2. ~Erasing /\ ~Loading /\ ~Choosing
  BY <1>1 DEF Erasing, Loading, Choosing
<1>3. \A i \in Slots : ~Saving(i) /\ ~Deleting(i)
  BY <1>1 DEF Saving, Deleting
<1>4. \A i \in 0..ProfilesMax : ~Switching(i)
  BY <1>1 DEF Switching
<1>5. Resting
  BY <1>2, <1>3, <1>4 DEF LockInv
<1> QED
  BY <1>5 DEF Resting

LEMMA NoReset == ASSUME LockInv, todo # <<>>, Head(todo).do # "erase" PROVE web.pc # "values"
<1>1. todo # <<Erase>>
  BY Tuples DEF Erase
<1> QED
  BY <1>1 DEF LockInv

LEMMA DoLock ==
    ASSUME ProfTypes, LockInv,
           DoSwitch \/ DoOverlay \/ DoManual \/ DoHold \/ DoSave \/ DoDrop \/ DoErase
    PROVE  LockInv'
<1> DEFINE Flash == nv.active = 0 \/ nv.prof[nv.active].used
<1>0. Usable(active) /\ Flash
  BY DEF LockInv
<1>t. prof \in Own /\ nv \in NvRec /\ nv.prof \in Own /\ active \in 0..ProfilesMax
  BY DEF ProfTypes, NvRec
<1>a. active # 0 => active \in Slots
  BY <1>t, ProfilesAssumption DEF Slots
<1>1. CASE DoSwitch
  <2>1. Doing("switch") /\ UNCHANGED <<prof, nv, web>>
    BY <1>1 DEF DoSwitch
  <2>2. PICK id \in 0..ProfilesMax, h \in BOOLEAN :
             /\ Head(todo) = Switch(id, h) /\ Same /\ SameChoice /\ Usable(id)
             /\ \/ todo' = <<Overlay, Active>> /\ h = FALSE
                \/ todo' = <<Overlay, Active, Hold>> /\ h = TRUE
                \/ todo' = <<Active>> /\ h = FALSE /\ id = active
                \/ todo' = <<Active, Hold>> /\ h = TRUE /\ id = active
                \/ id = 0 /\ h = FALSE /\ \E i \in Slots : todo' = <<Overlay, Active, Drop(i), Save(i)>>
    BY <2>1, SwitchNext
  <2>3. active' = id /\ byHand' = h
    BY <1>1, <2>2 DEF DoSwitch, Switch
  <2>4. web'.pc # "values"
    BY <2>1, NoReset DEF Doing
  <2>5. Same' /\ Usable(active)' /\ Flash'
    BY <1>0, <2>1, <2>2, <2>3 DEF Same, Usable
  <2>6. Loading' \/ Choosing' \/ \E i \in Slots : Deleting(i)'
    BY <2>2, <2>3, <2>5 DEF Loading, Choosing, Deleting
  <2> QED
    BY <2>4, <2>5, <2>6 DEF LockInv
<1>2. CASE DoOverlay
  <2>1. Doing("overlay") /\ UNCHANGED <<prof, nv, web, active, byHand>>
    BY <1>2 DEF DoOverlay
  <2>2. web'.pc # "values"
    BY <2>1, NoReset DEF Doing
  <2>3. /\ Same' = Same /\ SameChoice' = SameChoice /\ Usable(active)' /\ Flash'
    BY <1>0, <2>1 DEF Same, SameChoice, Usable
  <2>4. Resting' \/ Choosing' \/ \E i \in Slots : Deleting(i)'
    BY <2>1, <2>3, OverlayNext DEF Resting, Choosing, Deleting
  <2> QED
    BY <2>2, <2>3, <2>4 DEF LockInv
<1>3. CASE DoManual
  <2>1. Doing("active") /\ UNCHANGED <<prof, web, active, byHand>>
    BY <1>3 DEF DoManual
  <2>2. web'.pc # "values"
    BY <2>1, NoReset DEF Doing
  <2>3. nv'.prof = nv.prof /\ nv'.active = active /\ nv'.byHand = byHand
    BY <1>3, <1>t DEF DoManual, NvRec
  <2>4. Same
    BY <2>1, ActiveNext
  <2>5. Same' /\ SameChoice' /\ Usable(active)' /\ Flash'
    BY <1>0, <2>1, <2>3, <2>4 DEF Same, SameChoice, Usable
  <2>6. \A i \in Slots : active = 0 => active # i
    BY DEF Slots
  <2>7. Resting' \/ Choosing' \/ \E i \in Slots : Deleting(i)'
    BY <2>1, <2>5, <2>6, ActiveNext DEF Resting, Choosing, Deleting
  <2> QED
    BY <2>2, <2>5, <2>7 DEF LockInv
<1>4. CASE DoHold
  <2>1. Doing("hold") /\ UNCHANGED <<prof, web, active, byHand>>
    BY <1>4 DEF DoHold
  <2>2. web'.pc # "values"
    BY <2>1, NoReset DEF Doing
  <2>3. nv'.prof = nv.prof /\ nv'.active = nv.active /\ nv'.byHand = nv.byHand
    BY <1>4, <1>t DEF DoHold, NvRec
  <2>4. Same' /\ SameChoice' /\ Usable(active)' /\ Flash' /\ todo' = <<>>
    BY <1>0, <2>1, <2>3, HoldNext DEF Same, SameChoice, Usable
  <2> QED
    BY <2>2, <2>4 DEF LockInv, Resting
<1>5. CASE DoSave
  <2>1. Doing("save") /\ UNCHANGED <<prof, web, active, byHand>>
    BY <1>5 DEF DoSave
  <2>2. web'.pc # "values"
    BY <2>1, NoReset DEF Doing
  <2>3. PICK i \in Slots :
             /\ Head(todo).id = i /\ SameBut(i) /\ SameChoice
             /\ \/ todo' = <<>>
                \/ todo' = <<Overlay>>
                \/ todo' = <<Switch(i, TRUE), Overlay, Active, Hold>> /\ prof[i].used
    BY <2>1, SaveNext
  <2>4. nv' = [nv EXCEPT !.prof = [nv.prof EXCEPT ![i] = prof[i]]]
    BY <1>5, <2>3 DEF DoSave
  <2>5. nv'.prof = [nv.prof EXCEPT ![i] = prof[i]] /\ nv'.active = nv.active /\ nv'.byHand = nv.byHand
    BY <1>t, <2>4 DEF NvRec
  <2>6. nv'.prof = prof
    BY <1>t, <2>3, <2>5 DEF Own, SameBut
  <2>7. Same' /\ SameChoice' /\ Usable(active)' /\ Flash'
    BY <1>0, <2>1, <2>3, <2>5, <2>6 DEF Same, SameChoice, Usable
  <2>8. i \in 0..ProfilesMax
    BY ProfilesAssumption DEF Slots
  <2>9. Resting' \/ Loading' \/ Switching(i)'
    <3>1. prof[i].used => Usable(i)'
      BY <2>1 DEF Usable
    <3> QED
      BY <2>3, <2>7, <3>1 DEF Resting, Loading, Switching
  <2> QED
    BY <2>2, <2>7, <2>8, <2>9 DEF LockInv
<1>6. CASE DoDrop
  <2>1. Doing("drop") /\ UNCHANGED <<nv, web, active, byHand>>
    BY <1>6 DEF DoDrop
  <2>2. web'.pc # "values"
    BY <2>1, NoReset DEF Doing
  <2>3. PICK i \in Slots :
             Head(todo).id = i /\ Same /\ SameChoice /\ active # i /\ todo' = <<Save(i)>>
    BY <2>1, DropNext
  <2>4. \A j \in Slots \ {i} : prof'[j] = prof[j]
    BY <1>6, <1>t, <2>3 DEF DoDrop, Own
  <2>5. SameBut(i)' /\ SameChoice' /\ Usable(active)' /\ Flash'
    BY <1>0, <2>1, <2>3, <2>4 DEF Same, SameBut, SameChoice, Usable
  <2> QED
    BY <2>2, <2>3, <2>5 DEF LockInv, Saving
<1>7. CASE DoErase
  <2>1. Doing("erase") /\ UNCHANGED <<prof, web, active, byHand>> /\ nv' = [Fresh EXCEPT !.base = nv.base]
    BY <1>7 DEF DoErase
  <2>2. todo' = <<>> /\ active = 0 /\ byHand = FALSE /\ prof = Fresh.prof
    BY <2>1, EraseNext DEF LockInv
  <2>3. nv'.prof = Fresh.prof /\ nv'.active = 0
    BY <2>1, FreshIs DEF NvRec
  <2>4. Same' /\ SameChoice' /\ Usable(active)' /\ Flash'
    BY <1>0, <2>1, <2>2, <2>3 DEF Same, SameChoice, Usable
  <2> QED
    BY <2>1, <2>2, <2>4 DEF LockInv, Resting
<1> QED
  BY <1>1, <1>2, <1>3, <1>4, <1>5, <1>6, <1>7

(* Lists of steps put together. *)
LEMMA JoinIs ==
    ASSUME NEW S, NEW s \in Seq(S), NEW t \in Seq(S), NEW u \in Seq(S), Len(u) = Len(s) + Len(t),
           \A i \in 1..Len(u) : u[i] = IF i <= Len(s) THEN s[i] ELSE t[i - Len(s)]
    PROVE  s \o t = u
<1>1. s \o t \in Seq(S) /\ Len(s \o t) = Len(u)
  BY ConcatProperties
<1>2. \A i \in 1..Len(u) : (s \o t)[i] = u[i]
  BY ConcatProperties
<1> QED
  BY <1>1, <1>2, SeqEqual

LEMMA Join11 == ASSUME NEW a, NEW b PROVE <<a>> \o <<b>> = <<a, b>>
<1> DEFINE S == {a, b}
<1>1. <<a>> \in Seq(S) /\ <<b>> \in Seq(S) /\ <<a, b>> \in Seq(S)
  OBVIOUS
<1>2. Len(<<a, b>>) = Len(<<a>>) + Len(<<b>>)
  OBVIOUS
<1>3. \A i \in 1..Len(<<a, b>>) :
        <<a, b>>[i] = IF i <= Len(<<a>>) THEN <<a>>[i] ELSE <<b>>[i - Len(<<a>>)]
  OBVIOUS
<1> HIDE DEF S
<1> QED
  BY <1>1, <1>2, <1>3, JoinIs

LEMMA Join21 == ASSUME NEW a, NEW b, NEW c PROVE <<a, b>> \o <<c>> = <<a, b, c>>
<1> DEFINE S == {a, b, c}
<1>1. <<a, b>> \in Seq(S) /\ <<c>> \in Seq(S) /\ <<a, b, c>> \in Seq(S)
  OBVIOUS
<1>2. Len(<<a, b, c>>) = Len(<<a, b>>) + Len(<<c>>)
  OBVIOUS
<1>3. \A i \in 1..Len(<<a, b, c>>) :
        <<a, b, c>>[i] = IF i <= Len(<<a, b>>) THEN <<a, b>>[i] ELSE <<c>>[i - Len(<<a, b>>)]
  OBVIOUS
<1> HIDE DEF S
<1> QED
  BY <1>1, <1>2, <1>3, JoinIs

LEMMA Join31 == ASSUME NEW a, NEW b, NEW c, NEW d PROVE <<a, b, c>> \o <<d>> = <<a, b, c, d>>
<1> DEFINE S == {a, b, c, d}
<1>1. <<a, b, c>> \in Seq(S) /\ <<d>> \in Seq(S) /\ <<a, b, c, d>> \in Seq(S)
  OBVIOUS
<1>2. Len(<<a, b, c, d>>) = Len(<<a, b, c>>) + Len(<<d>>)
  OBVIOUS
<1>3. \A i \in 1..Len(<<a, b, c, d>>) :
        <<a, b, c, d>>[i] = IF i <= Len(<<a, b, c>>) THEN <<a, b, c>>[i] ELSE <<d>>[i - Len(<<a, b, c>>)]
  OBVIOUS
<1> HIDE DEF S
<1> QED
  BY <1>1, <1>2, <1>3, JoinIs

LEMMA Join14 == ASSUME NEW a, NEW b, NEW c, NEW d, NEW e PROVE <<a>> \o <<b, c, d, e>> = <<a, b, c, d, e>>
<1> DEFINE S == {a, b, c, d, e}
<1>1. <<a>> \in Seq(S) /\ <<b, c, d, e>> \in Seq(S) /\ <<a, b, c, d, e>> \in Seq(S)
  OBVIOUS
<1>2. Len(<<a, b, c, d, e>>) = Len(<<a>>) + Len(<<b, c, d, e>>)
  OBVIOUS
<1>3. \A i \in 1..Len(<<a, b, c, d, e>>) :
        <<a, b, c, d, e>>[i] = IF i <= Len(<<a>>) THEN <<a>>[i] ELSE <<b, c, d, e>>[i - Len(<<a>>)]
  OBVIOUS
<1> HIDE DEF S
<1> QED
  BY <1>1, <1>2, <1>3, JoinIs

LEMMA Join32 == ASSUME NEW a, NEW b, NEW c, NEW d, NEW e PROVE <<a, b, c>> \o <<d, e>> = <<a, b, c, d, e>>
<1> DEFINE S == {a, b, c, d, e}
<1>1. <<a, b, c>> \in Seq(S) /\ <<d, e>> \in Seq(S) /\ <<a, b, c, d, e>> \in Seq(S)
  OBVIOUS
<1>2. Len(<<a, b, c, d, e>>) = Len(<<a, b, c>>) + Len(<<d, e>>)
  OBVIOUS
<1>3. \A i \in 1..Len(<<a, b, c, d, e>>) :
        <<a, b, c, d, e>>[i] = IF i <= Len(<<a, b, c>>) THEN <<a, b, c>>[i] ELSE <<d, e>>[i - Len(<<a, b, c>>)]
  OBVIOUS
<1> HIDE DEF S
<1> QED
  BY <1>1, <1>2, <1>3, JoinIs

LEMMA JoinNone ==
    /\ \A a : <<a>> \o <<>> = <<a>>
    /\ \A a, b : <<a, b>> \o <<>> = <<a, b>> /\ <<>> \o <<a, b>> = <<a, b>>
    /\ \A a, b, c : <<a, b, c>> \o <<>> = <<a, b, c>>
<1>1. \A a : <<a>> \o <<>> = <<a>>
  OBVIOUS
<1>2. \A a, b : <<a, b>> \o <<>> = <<a, b>>
  OBVIOUS
<1>3. \A a, b : <<>> \o <<a, b>> = <<a, b>>
  OBVIOUS
<1>4. \A a, b, c : <<a, b, c>> \o <<>> = <<a, b, c>>
  OBVIOUS
<1> QED
  BY <1>1, <1>2, <1>3, <1>4

(* kvm_profiles_select, while the lock is free.                            *)
LEMMA SelectingIs ==
    ASSUME NEW id, NEW h \in BOOLEAN, Selecting(id, h) # <<>>
    PROVE  \/ Selecting(id, h) = <<Switch(id, FALSE), Overlay, Active>> /\ ~h
           \/ Selecting(id, h) = <<Switch(id, TRUE), Overlay, Active, Hold>> /\ h
           \/ Selecting(id, h) = <<Switch(id, FALSE), Active>> /\ ~h /\ id = active
           \/ Selecting(id, h) = <<Switch(id, TRUE), Active, Hold>> /\ h /\ id = active
<1> DEFINE sw == Switch(id, h)
           ov == IF id # active THEN <<Overlay>> ELSE <<>>
           ho == IF h THEN <<Hold>> ELSE <<>>
<1>1. Selecting(id, h) = <<sw>> \o ov \o <<Active>> \o ho
  BY DEF Selecting
<1>2. (h => ho = <<Hold>> /\ sw = Switch(id, TRUE)) /\ (~h => ho = <<>> /\ sw = Switch(id, FALSE))
  OBVIOUS
<1>3. (id # active => ov = <<Overlay>>) /\ (id = active => ov = <<>>)
  OBVIOUS
<1> HIDE DEF sw, ov, ho
<1>4. id # active => <<sw>> \o ov \o <<Active>> = <<sw, Overlay, Active>>
  <2>1. <<sw>> \o <<Overlay>> = <<sw, Overlay>>
    BY Join11
  <2>2. <<sw, Overlay>> \o <<Active>> = <<sw, Overlay, Active>>
    BY Join21
  <2> QED
    BY <1>3, <2>1, <2>2
<1>5. id = active => <<sw>> \o ov \o <<Active>> = <<sw, Active>>
  <2>1. <<sw>> \o <<>> = <<sw>>
    BY JoinNone
  <2>2. <<sw>> \o <<Active>> = <<sw, Active>>
    BY Join11
  <2> QED
    BY <1>3, <2>1, <2>2
<1>6. id # active /\ h => Selecting(id, h) = <<sw, Overlay, Active, Hold>>
  <2>1. <<sw, Overlay, Active>> \o <<Hold>> = <<sw, Overlay, Active, Hold>>
    BY Join31
  <2> QED
    BY <1>1, <1>2, <1>4, <2>1
<1>7. id # active /\ ~h => Selecting(id, h) = <<sw, Overlay, Active>>
  <2>1. <<sw, Overlay, Active>> \o <<>> = <<sw, Overlay, Active>>
    BY JoinNone
  <2> QED
    BY <1>1, <1>2, <1>4, <2>1
<1>8. id = active /\ h => Selecting(id, h) = <<sw, Active, Hold>>
  <2>1. <<sw, Active>> \o <<Hold>> = <<sw, Active, Hold>>
    BY Join21
  <2> QED
    BY <1>1, <1>2, <1>5, <2>1
<1>9. id = active /\ ~h => Selecting(id, h) = <<sw, Active>>
  <2>1. <<sw, Active>> \o <<>> = <<sw, Active>>
    BY JoinNone
  <2> QED
    BY <1>1, <1>2, <1>5, <2>1
<1> QED
  BY <1>2, <1>6, <1>7, <1>8, <1>9, Zenon

LEMMA CallLock ==
    ASSUME ProfTypes, LockInv,
           \/ \E r \in Rules, v \in OwnValues, s \in BOOLEAN : CreateProfile(r, v, s)
           \/ \E i \in Slots, r \in Rules, v \in Values \cup {NoVal} : UpdateProfile(i, r, v)
           \/ \E i \in Slots : DeleteProfile(i)
           \/ \E id \in 0..ProfilesMax : SelectByHand(id)
    PROVE  LockInv'
<1> DEFINE Flash == nv.active = 0 \/ nv.prof[nv.active].used
<1>0. Usable(active) /\ Flash
  BY DEF LockInv
<1>t. prof \in Own /\ nv \in NvRec /\ nv.prof \in Own /\ active \in 0..ProfilesMax
  BY DEF ProfTypes, NvRec
<1>1. Call /\ CallUnchanged
  BY DEF CreateProfile, UpdateProfile, DeleteProfile, SelectByHand
<1>2. Same /\ SameChoice /\ web'.pc # "values" /\ UNCHANGED <<active, byHand, nv, web>>
  BY <1>1, LockFreeIs DEF Call, CallUnchanged
<1>3. SameChoice' /\ Flash'
  BY <1>0, <1>2 DEF SameChoice
<1>4. ASSUME NEW r \in Rules, NEW v \in OwnValues, NEW s \in BOOLEAN, CreateProfile(r, v, s)
      PROVE  LockInv'
  <2>1. PICK i \in Slots :
          /\ ~prof[i].used
          /\ prof' = [prof EXCEPT ![i] = [used |-> TRUE, set |-> v, rule |-> r]]
          /\ todo' = <<Save(i)>> \o (IF s THEN <<Switch(i, TRUE), Overlay, Active, Hold>> ELSE <<>>)
    BY <1>4 DEF CreateProfile
  <2>2. prof'[i].used /\ \A j \in Slots \ {i} : prof'[j] = prof[j]
    BY <1>t, <2>1 DEF Own
  <2>3. SameBut(i)' /\ Usable(active)'
    BY <1>0, <1>2, <2>1, <2>2 DEF Same, SameBut, Usable
  <2>4. s => todo' = <<Save(i), Switch(i, TRUE), Overlay, Active, Hold>>
    <3> DEFINE b == Switch(i, TRUE)
    <3>1. s => todo' = <<Save(i)>> \o <<b, Overlay, Active, Hold>>
      BY <2>1
    <3> HIDE DEF b
    <3>2. <<Save(i)>> \o <<b, Overlay, Active, Hold>> = <<Save(i), b, Overlay, Active, Hold>>
      BY Join14
    <3>3. s => todo' = <<Save(i), b, Overlay, Active, Hold>>
      BY <3>1, <3>2
    <3> QED
      BY <3>3 DEF b
  <2>5. ~s => todo' = <<Save(i)>>
    <3>1. ~s => todo' = <<Save(i)>> \o <<>>
      BY <2>1
    <3> QED
      BY <3>1, JoinNone
  <2>6. Saving(i)'
    BY <1>3, <2>2, <2>3, <2>4, <2>5 DEF Saving
  <2> QED
    BY <1>2, <1>3, <2>3, <2>6 DEF LockInv
<1>5. ASSUME NEW i \in Slots, NEW r \in Rules, NEW v \in Values \cup {NoVal}, UpdateProfile(i, r, v)
      PROVE  LockInv'
  <2>1. /\ prof[i].used /\ prof' = [prof EXCEPT ![i] = [prof[i] EXCEPT !.set = v, !.rule = r]]
        /\ todo' = <<Save(i)>> \o (IF i = active THEN <<Overlay>> ELSE <<>>)
    BY <1>5, <1>t DEF UpdateProfile, Own
  <2>2. prof'[i].used /\ \A j \in Slots \ {i} : prof'[j] = prof[j]
    BY <1>t, <2>1 DEF Own, OwnRec
  <2>3. SameBut(i)' /\ Usable(active)'
    BY <1>0, <1>2, <2>1, <2>2 DEF Same, SameBut, Usable
  <2>4. todo' = <<Save(i)>> \/ todo' = <<Save(i), Overlay>>
    <3>1. <<Save(i)>> \o <<Overlay>> = <<Save(i), Overlay>> /\ <<Save(i)>> \o <<>> = <<Save(i)>>
      BY Join11, JoinNone
    <3> QED
      BY <2>1, <3>1
  <2>5. Saving(i)'
    BY <1>3, <2>3, <2>4 DEF Saving
  <2> QED
    BY <1>2, <1>3, <2>3, <2>5 DEF LockInv
<1>6. ASSUME NEW i \in Slots, DeleteProfile(i) PROVE LockInv'
  <2>1. /\ prof' = prof
        /\ todo' = (IF i = active THEN <<Switch(0, FALSE), Overlay, Active>> ELSE <<>>) \o <<Drop(i), Save(i)>>
    BY <1>6 DEF DeleteProfile
  <2>2. Same' /\ Usable(active)'
    BY <1>0, <1>2, <2>1 DEF Same, Usable
  <2>3. i = active => todo' = <<Switch(0, FALSE), Overlay, Active, Drop(i), Save(i)>>
    <3> DEFINE b == Switch(0, FALSE)
    <3>1. i = active => todo' = <<b, Overlay, Active>> \o <<Drop(i), Save(i)>>
      BY <2>1
    <3> HIDE DEF b
    <3>2. <<b, Overlay, Active>> \o <<Drop(i), Save(i)>> = <<b, Overlay, Active, Drop(i), Save(i)>>
      BY Join32
    <3>3. i = active => todo' = <<b, Overlay, Active, Drop(i), Save(i)>>
      BY <3>1, <3>2
    <3> QED
      BY <3>3 DEF b
  <2>4. i # active => todo' = <<Drop(i), Save(i)>>
    <3>1. i # active => todo' = <<>> \o <<Drop(i), Save(i)>>
      BY <2>1
    <3> QED
      BY <3>1, JoinNone
  <2>5. Deleting(i)'
    BY <1>2, <1>3, <2>2, <2>3, <2>4 DEF Deleting
  <2> QED
    BY <1>2, <1>3, <2>2, <2>5 DEF LockInv
<1>7. ASSUME NEW id \in 0..ProfilesMax, SelectByHand(id) PROVE LockInv'
  <2>1. prof' = prof /\ Usable(id) /\ Selecting(id, TRUE) # <<>> /\ todo' = Selecting(id, TRUE)
    BY <1>7 DEF SelectByHand
  <2>2. Same' /\ Usable(active)' /\ Usable(id)'
    BY <1>0, <1>2, <2>1 DEF Same, Usable
  <2>3. \/ todo' = <<Switch(id, TRUE), Overlay, Active, Hold>>
        \/ todo' = <<Switch(id, TRUE), Active, Hold>> /\ id = active
    BY <2>1, SelectingIs
  <2>4. Switching(id)'
    BY <1>2, <1>3, <2>2, <2>3 DEF Switching
  <2> QED
    BY <1>2, <1>3, <2>2, <2>4 DEF LockInv
<1> QED
  BY <1>4, <1>5, <1>6, <1>7

LEMMA ValueLock ==
    ASSUME ProfTypes, LockInv,
           \/ \E v \in Values : SetValue(v)
           \/ PersistValue \/ StoreValue \/ ResetFlash \/ ResetProfiles \/ ResetValues
    PROVE  LockInv'
<1> DEFINE Flash == nv.active = 0 \/ nv.prof[nv.active].used
<1>0. Usable(active) /\ Flash
  BY DEF LockInv
<1>t. prof \in Own /\ nv \in NvRec /\ nv.prof \in Own /\ active \in 0..ProfilesMax /\ web \in WebRec
  BY DEF ProfTypes, NvRec
<1>a. active # 0 => active \in Slots
  BY <1>t, ProfilesAssumption DEF Slots
<1>1. ASSUME NEW v \in Values, SetValue(v) PROVE LockInv'
  <2>1. UNCHANGED <<prof, active, byHand, todo, nv>> /\ web.pc # "values" /\ web'.pc # "values"
    BY <1>1 DEF SetValue, WebIdle
  <2> QED
    BY <2>1, LockKept
<1>2. CASE PersistValue
  <2>1. UNCHANGED <<prof, active, byHand, todo>> /\ web.pc # "values" /\ web'.pc # "values"
    BY <1>2 DEF PersistValue, WebIdle, WebUnchanged
  <2>2. nv'.prof = nv.prof /\ nv'.active = nv.active /\ nv'.byHand = nv.byHand
    BY <1>2, <1>t DEF PersistValue, NvRec
  <2> QED
    BY <2>1, <2>2, LockKept
<1>3. CASE StoreValue
  <2>1. UNCHANGED <<active, byHand, nv>> /\ web.pc # "values" /\ web'.pc # "values" /\ LockFree
    BY <1>3 DEF StoreValue, WebIdle, WebUnchanged
  <2>2. CASE active = 0
    <3>1. UNCHANGED <<prof, todo>>
      BY <1>3, <2>2 DEF StoreValue
    <3> QED
      BY <2>1, <3>1, LockKept
  <2>3. CASE active # 0
    <3>1. prof' = [prof EXCEPT ![active] = [prof[active] EXCEPT !.set = web.v]] /\ todo' = <<Save(active)>>
      BY <1>3, <2>3 DEF StoreValue
    <3>2. prof'[active].used = prof[active].used /\ \A j \in Slots \ {active} : prof'[j] = prof[j]
      BY <1>t, <1>a, <2>3, <3>1 DEF Own, OwnRec
    <3>3. Same /\ SameChoice
      BY <2>1, LockFreeIs
    <3>4. Usable(active)' /\ SameChoice' /\ Flash'
      BY <1>0, <2>1, <3>2, <3>3 DEF Usable, SameChoice
    <3>5. PICK k \in Slots : k = active
      BY <1>a, <2>3
    <3>7. SameBut(k)' /\ todo' = <<Save(k)>>
      BY <2>1, <3>1, <3>2, <3>3, <3>5 DEF Same, SameBut
    <3>8. Saving(k)'
      BY <3>4, <3>7 DEF Saving
    <3>6. \E i \in Slots : Saving(i)'
      BY <3>8
    <3> QED
      BY <2>1, <3>4, <3>6 DEF LockInv
  <2> QED
    BY <2>2, <2>3
<1>4. CASE ResetFlash
  <2>1. UNCHANGED <<prof, active, byHand, todo>> /\ web.pc # "values" /\ web'.pc # "values"
    BY <1>4 DEF ResetFlash, Call, WebIdle
  <2>2. nv'.prof = nv.prof /\ nv'.active = nv.active /\ nv'.byHand = nv.byHand
    BY <1>4, <1>t DEF ResetFlash, NvRec
  <2> QED
    BY <2>1, <2>2, LockKept
<1>5. CASE ResetProfiles
  <2>1. /\ prof' = Fresh.prof /\ active' = 0 /\ byHand' = FALSE /\ todo' = <<Erase>>
        /\ web'.pc = "values" /\ nv' = nv
    BY <1>5, <1>t DEF ResetProfiles, WebRec
  <2>2. Usable(active)' /\ Flash' /\ Erasing'
    BY <1>0, <2>1 DEF Usable, Erasing
  <2> QED
    BY <2>1, <2>2 DEF LockInv
<1>6. CASE ResetValues
  <2>1. LockFree /\ UNCHANGED <<prof, active, byHand, todo, nv>> /\ web'.pc # "values"
    BY <1>6 DEF ResetValues, WebIdle, WebUnchanged
  <2>2. Same' /\ SameChoice' /\ Usable(active)' /\ Flash' /\ todo' = <<>>
    BY <1>0, <2>1, LockFreeIs DEF Same, SameChoice, Usable, LockFree
  <2> QED
    BY <2>1, <2>2 DEF LockInv, Resting
<1> QED
  BY <1>1, <1>2, <1>3, <1>4, <1>5, <1>6

LEMMA AutoLock ==
    ASSUME ProfTypes, LockInv,
           \/ \E look \in Looks(dev) : AutoTick(look)
           \/ AutoAsk \/ AutoPick \/ AutoSelect \/ AutoValues
           \/ AutoAllow \/ AutoCec \/ AutoRestart \/ Calm \/ ProfCrash \/ Swap
    PROVE  LockInv'
<1> DEFINE Flash == nv.active = 0 \/ nv.prof[nv.active].used
<1>0. Usable(active) /\ Flash
  BY DEF LockInv
<1>t. nv \in NvRec
  BY DEF ProfTypes
<1>1. CASE \/ \E look \in Looks(dev) : AutoTick(look)
           \/ AutoAsk \/ AutoPick \/ AutoValues \/ AutoAllow \/ AutoCec \/ Calm \/ Swap
  <2>1. UNCHANGED <<prof, active, byHand, todo, web>>
    BY <1>1 DEF AutoTick, AutoAsk, AutoPick, AutoValues, AutoAllow, AutoCec, Calm, Swap, AutoAt, AutoUnchanged,
                keepVars
  <2>2. nv'.prof = nv.prof /\ nv'.active = nv.active /\ nv'.byHand = nv.byHand
    BY <1>1, <1>t DEF AutoTick, AutoAsk, AutoPick, AutoValues, AutoAllow, AutoCec, Calm, Swap, NvRec
  <2> QED
    BY <2>1, <2>2, LockKept
<1>2. CASE AutoSelect
  <2>1. UNCHANGED <<prof, active, byHand, nv, web>> /\ LockFree
    BY <1>2 DEF AutoSelect, AutoAt, AutoUnchanged
  <2>2. todo' = IF Usable(auto.id) THEN Selecting(auto.id, FALSE) ELSE <<>>
    BY <1>2 DEF AutoSelect
  <2>3. Same' /\ SameChoice' /\ Usable(active)' /\ Flash'
    BY <1>0, <2>1, LockFreeIs DEF Same, SameChoice, Usable
  <2>4. CASE todo' = <<>>
    <3>1. Resting'
      BY <2>3, <2>4 DEF Resting
    <3> QED
      BY <2>1, <2>3, <2>4, <3>1 DEF LockInv
  <2>5. CASE todo' # <<>>
    <3>1. Usable(auto.id) /\ todo' = Selecting(auto.id, FALSE)
      BY <2>2, <2>5
    <3>2. web.pc # "values"
      <4> SUFFICES ASSUME web.pc = "values" PROVE FALSE
        OBVIOUS
      <4>1. active = 0 /\ byHand = FALSE /\ prof = [i \in Slots |-> Unused]
        BY FreshIs DEF LockInv
      <4>2. auto.id = 0
        BY <3>1, <4>1 DEF Usable, Unused
      <4> QED
        BY <2>5, <3>1, <4>1, <4>2 DEF Selecting
    <3>3. auto.id \in 0..ProfilesMax
      BY <3>1, ProfilesAssumption DEF Usable, Slots
    <3>4. \/ todo' = <<Switch(auto.id, FALSE), Overlay, Active>>
          \/ todo' = <<Switch(auto.id, FALSE), Active>> /\ auto.id = active
      BY <2>5, <3>1, SelectingIs
    <3>5. \E id \in 0..ProfilesMax : Switching(id)'
      <4>2. PICK k \in 0..ProfilesMax : k = auto.id
        BY <3>3
      <4>3. Usable(k)'
        BY <2>1, <3>1, <4>2 DEF Usable
      <4>4. Switching(k)'
        BY <2>1, <2>3, <3>4, <4>2, <4>3 DEF Switching
      <4> QED
        BY <4>4
    <3> QED
      BY <2>1, <2>3, <3>2, <3>5 DEF LockInv
  <2> QED
    BY <2>4, <2>5
<1>3. CASE AutoRestart \/ ProfCrash
  <2>1. Booted(nv) /\ nv' = nv
    BY <1>3 DEF AutoRestart, ProfCrash
  <2>2. /\ prof' = nv.prof /\ active' = nv.active /\ byHand' = (nv.active # 0 /\ nv.byHand)
        /\ todo' = <<>> /\ web' = WebIdle
    BY <1>0, <2>1, BootIs
  <2>4. web'.pc = "idle"
    BY <2>2 DEF WebIdle
  <2>3. Same' /\ SameChoice' /\ Usable(active)' /\ Flash'
    <3>1. nv.active = 0 \/ nv.active \in Slots
      BY <1>t, ProfilesAssumption DEF NvRec, Slots
    <3>2. nv.byHand \in BOOLEAN
      BY <1>t DEF NvRec
    <3> QED
      BY <1>0, <2>1, <2>2, <3>1, <3>2 DEF Same, SameChoice, Usable
  <2> QED
    BY <2>2, <2>3, <2>4 DEF LockInv, Resting
<1> QED
  BY <1>1, <1>2, <1>3

(* The choice is of a profile flash holds, and flash is not ahead of it.   *)
LEMMA KeyLock == ASSUME ProfTypes, LockInv, DoActive PROVE LockInv'
<1>1. todo # <<>> /\ Head(todo) = Active /\ nv.active # active
  BY DEF DoActive
<1>2. /\ Active.do = "active" /\ Overlay.do = "overlay" /\ Erase.do = "erase" /\ Hold.do = "hold"
      /\ \A i : Save(i).do = "save" /\ Drop(i).do = "drop"
      /\ \A i, h : Switch(i, h).do = "switch"
  BY DEF Active, Overlay, Erase, Hold, Save, Drop, Switch
<1>3. web.pc # "values"
  BY <1>1, <1>2, NoReset
<1>4. /\ nv'.active = active /\ nv'.prof = nv.prof
      /\ UNCHANGED <<prof, active, byHand, todo, web>>
  BY KeyWritten
<1>5. ~Resting /\ ~Erasing /\ (\A i \in Slots : ~Saving(i))
      /\ (\A id \in 0..ProfilesMax : ~Switching(id))
  <2>1. ~Resting /\ ~Erasing
    BY <1>1, <1>2, Tuples DEF Resting, Erasing
  <2>2. \A i \in Slots : ~Saving(i)
    <3> SUFFICES ASSUME NEW i \in Slots, Saving(i) PROVE FALSE
      OBVIOUS
    <3>a. \/ todo = <<Save(i)>>
          \/ todo = <<Save(i), Overlay>>
          \/ todo = <<Save(i), Switch(i, TRUE), Overlay, Active, Hold>>
      BY DEF Saving
    <3>1. Head(todo) = Save(i)
      <4>1. CASE todo = <<Save(i)>>
        BY <4>1, Tuples
      <4>2. CASE todo = <<Save(i), Overlay>>
        BY <4>2, Tuples
      <4>3. CASE todo = <<Save(i), Switch(i, TRUE), Overlay, Active, Hold>>
        BY <4>3, Tuples
      <4> QED
        BY <3>a, <4>1, <4>2, <4>3
    <3> QED
      BY <1>1, <1>2, <3>1
  <2>3. \A id \in 0..ProfilesMax : ~Switching(id)
    <3> SUFFICES ASSUME NEW id \in 0..ProfilesMax, Switching(id) PROVE FALSE
      OBVIOUS
    <3>a. PICK h \in BOOLEAN : \/ todo = <<Switch(id, h), Overlay, Active>>
                              \/ todo = <<Switch(id, h), Overlay, Active, Hold>>
                              \/ todo = <<Switch(id, h), Active>>
                              \/ todo = <<Switch(id, h), Active, Hold>>
      BY Zenon DEF Switching
    <3>1. Head(todo) = Switch(id, h)
      BY <3>a, Tuples
    <3> QED
      BY <1>1, <1>2, <3>1
  <2> QED
    BY <2>1, <2>2, <2>3
<1>6. ~Loading
  BY <1>1, <1>2, Tuples DEF Loading
<1>7. Usable(active)
  BY DEF LockInv
<1>8. CASE Choosing
  <2>1. Same /\ (todo = <<Active>> \/ (todo = <<Active, Hold>> /\ byHand))
    BY <1>1, <1>8 DEF Choosing, SameChoice
  <2>2. Same' /\ Usable(active)' /\ (nv.active = 0 \/ nv.prof[nv.active].used)'
    BY <1>4, <1>7, <2>1 DEF Same, Usable
  <2>3. Choosing'
    BY <1>4, <2>1, <2>2 DEF Choosing
  <2> QED
    BY <1>3, <1>4, <2>2, <2>3 DEF LockInv
<1>9. ASSUME NEW i \in Slots, Deleting(i) PROVE LockInv'
  <2>1. Same
    BY <1>9 DEF Deleting
  <2>2. Same' /\ Usable(active)' /\ (nv.active = 0 \/ nv.prof[nv.active].used)'
    BY <1>4, <1>7, <2>1 DEF Same, Usable
  <2>3. /\ todo # <<Switch(0, FALSE), Overlay, Active, Drop(i), Save(i)>>
        /\ todo # <<Overlay, Active, Drop(i), Save(i)>> /\ todo # <<Drop(i), Save(i)>>
    <3>1. \A b, c, d, e : Head(<<Switch(0, FALSE), b, c, d, e>>) = Switch(0, FALSE)
      BY Tuples
    <3>2. \A b, c, d : Head(<<Overlay, b, c, d>>) = Overlay
      BY Tuples
    <3>3. Head(<<Drop(i), Save(i)>>) = Drop(i)
      BY Tuples
    <3>4. Active # Switch(0, FALSE) /\ Active # Overlay /\ Active # Drop(i)
      BY <1>2
    <3> QED
      BY <1>1, <3>1, <3>2, <3>3, <3>4, Zenon
  <2>4. todo = <<Active, Drop(i), Save(i)>> /\ active = 0
    BY <1>9, <2>3 DEF Deleting
  <2>5. Deleting(i)'
    BY <1>4, <2>2, <2>4 DEF Deleting
  <2> QED
    BY <1>3, <1>4, <2>2, <2>5 DEF LockInv
<1> QED
  BY <1>5, <1>6, <1>8, <1>9 DEF LockInv

LEMMA StepLock == ASSUME ProfTypes, LockInv, [ProfNext]_profVars PROVE LockInv'
<1>1. CASE UNCHANGED profVars
  BY <1>1, LockKept DEF profVars, keepVars
<1> QED
  BY <1>1, KeyLock, DoLock, CallLock, ValueLock, AutoLock DEF ProfNext

LEMMA StepTypes == ASSUME ProfTypes, LockInv, [ProfNext]_profVars PROVE ProfTypes'
<1>1. CASE UNCHANGED profVars
  BY <1>1 DEF profVars, keepVars, ProfTypes
<1>2. CASE DoActive
  BY <1>2, KeyWritten DEF ProfTypes
<1> QED
  BY <1>1, <1>2, DoTypes, CallTypes, AutoTypes DEF ProfNext

----------------------------------------------------------------------------
(* The values. *)

(* What is left to do after a step that loads no overlay still loads it.   *)
LEMMA TodoIs == ASSUME LockInv PROVE \E S : todo \in Seq(S)
<1> DEFINE IsSeq(t) == \E S : t \in Seq(S)
<1>0. IsSeq(<<>>)
  OBVIOUS
<1>1. \A a : IsSeq(<<a>>)
  <2> TAKE a
  <2>1. <<a>> \in Seq({a})
    OBVIOUS
  <2> QED
    BY <2>1
<1>2. \A a, b : IsSeq(<<a, b>>)
  <2> TAKE a, b
  <2>1. <<a, b>> \in Seq({a, b})
    OBVIOUS
  <2> QED
    BY <2>1
<1>3. \A a, b, c : IsSeq(<<a, b, c>>)
  <2> TAKE a, b, c
  <2>1. <<a, b, c>> \in Seq({a, b, c})
    OBVIOUS
  <2> QED
    BY <2>1
<1>4. \A a, b, c, d : IsSeq(<<a, b, c, d>>)
  <2> TAKE a, b, c, d
  <2>1. <<a, b, c, d>> \in Seq({a, b, c, d})
    OBVIOUS
  <2> QED
    BY <2>1
<1>5. \A a, b, c, d, e : IsSeq(<<a, b, c, d, e>>)
  <2> TAKE a, b, c, d, e
  <2>1. <<a, b, c, d, e>> \in Seq({a, b, c, d, e})
    OBVIOUS
  <2> QED
    BY <2>1
<1> HIDE DEF IsSeq
<1>6. Resting \/ Erasing \/ Loading \/ Choosing => IsSeq(todo)
  BY <1>0, <1>1, <1>2, <1>3, Zenon DEF Resting, Erasing, Loading, Choosing
<1>7. ASSUME NEW i \in Slots, Saving(i) \/ Deleting(i) PROVE IsSeq(todo)
  BY <1>1, <1>2, <1>3, <1>4, <1>5, <1>7, Zenon DEF Saving, Deleting
<1>8. ASSUME NEW i \in 0..ProfilesMax, Switching(i) PROVE IsSeq(todo)
  BY <1>2, <1>3, <1>4, <1>8, Zenon DEF Switching
<1>9. IsSeq(todo)
  BY <1>6, <1>7, <1>8, Zenon DEF LockInv
<1> QED
  BY <1>9 DEF IsSeq

LEMMA StillAhead ==
    ASSUME LockInv, NEW kind, Doing(kind), kind # "overlay", OverlayAhead
    PROVE  OverlayAhead'
<1>1. PICK S : todo \in Seq(S)
  BY TodoIs
<1>2. todo # <<>> /\ todo' = Tail(todo) /\ Head(todo).do # "overlay"
  BY DEF Doing
<1>3. PICK k \in DOMAIN todo : todo[k].do = "overlay"
  BY DEF OverlayAhead
<1>4. k \in 1..Len(todo) /\ k # 1
  BY <1>1, <1>2, <1>3
<1>5. k - 1 \in DOMAIN todo' /\ todo'[k - 1] = todo[k]
  BY <1>1, <1>2, <1>4
<1> QED
  BY <1>3, <1>5 DEF OverlayAhead

LEMMA NoneAhead == ASSUME LockFree PROVE ~OverlayAhead
BY DEF LockFree, OverlayAhead

LEMMA ValueKept ==
    ASSUME ValueInv, UNCHANGED <<base, over, web>>, nv'.base = nv.base, strayed => strayed',
           OverlayAhead => OverlayAhead',
           OverlayAhead' \/ (OverOf' = OverOf /\ (active = 0 <=> active' = 0))
    PROVE  ValueInv'
BY DEF ValueInv

LEMMA DoValue ==
    ASSUME ProfTypes, LockInv, ValueInv,
           DoSwitch \/ DoOverlay \/ DoManual \/ DoHold \/ DoSave \/ DoDrop \/ DoErase
    PROVE  ValueInv'
<1>t. prof \in Own /\ nv \in NvRec /\ nv.prof \in Own /\ active \in 0..ProfilesMax /\ strayed \in BOOLEAN
  BY DEF ProfTypes, NvRec
<1>a. active # 0 => active \in Slots
  BY <1>t, ProfilesAssumption DEF Slots
<1>1. CASE DoSwitch
  <2>1. Doing("switch") /\ UNCHANGED <<base, over, prof, nv, web, strayed>>
    BY <1>1 DEF DoSwitch
  <2>2. PICK id \in 0..ProfilesMax, h \in BOOLEAN :
             /\ Head(todo) = Switch(id, h) /\ Same /\ SameChoice /\ Usable(id)
             /\ \/ todo' = <<Overlay, Active>> /\ h = FALSE
                \/ todo' = <<Overlay, Active, Hold>> /\ h = TRUE
                \/ todo' = <<Active>> /\ h = FALSE /\ id = active
                \/ todo' = <<Active, Hold>> /\ h = TRUE /\ id = active
                \/ id = 0 /\ h = FALSE /\ \E i \in Slots : todo' = <<Overlay, Active, Drop(i), Save(i)>>
    BY <2>1, SwitchNext
  <2>3. active' = id
    BY <1>1, <2>2 DEF DoSwitch, Switch
  <2>4. OverlayAhead => OverlayAhead'
    BY <2>1, StillAhead
  <2>5. CASE id = active
    BY <2>1, <2>3, <2>4, <2>5, ValueKept DEF OverOf
  <2>6. CASE id # active
    <3>1. Overlay.do = "overlay"
      BY DEF Overlay
    <3>2. \A b : 1 \in DOMAIN <<Overlay, b>> /\ <<Overlay, b>>[1] = Overlay
      OBVIOUS
    <3>3. \A b, c : 1 \in DOMAIN <<Overlay, b, c>> /\ <<Overlay, b, c>>[1] = Overlay
      OBVIOUS
    <3>4. \A b, c, d : 1 \in DOMAIN <<Overlay, b, c, d>> /\ <<Overlay, b, c, d>>[1] = Overlay
      OBVIOUS
    <3>5. 1 \in DOMAIN todo' /\ todo'[1] = Overlay
      BY <2>2, <2>6, <3>2, <3>3, <3>4, Zenon
    <3>6. OverlayAhead'
      BY <3>1, <3>5 DEF OverlayAhead
    <3> QED
      BY <2>1, <3>6, ValueKept
  <2> QED
    BY <2>5, <2>6
<1>2. CASE DoOverlay
  <2>1. Doing("overlay") /\ UNCHANGED <<base, prof, active, nv, web>>
    BY <1>2 DEF DoOverlay
  <2>2. over' = OverOf /\ strayed' = (strayed \/ web.pc = "store")
    BY <1>2 DEF DoOverlay, OverOf
  <2>3. OverOf' = OverOf
    BY <2>1 DEF OverOf
  <2> QED
    BY <1>t, <2>1, <2>2, <2>3 DEF ValueInv
<1>3. CASE DoManual
  <2>1. Doing("active") /\ UNCHANGED <<base, over, prof, active, web, strayed>>
    BY <1>3 DEF DoManual
  <2>2. nv'.base = nv.base
    BY <1>3, <1>t DEF DoManual, NvRec
  <2>3. OverlayAhead => OverlayAhead'
    BY <2>1, StillAhead
  <2> QED
    BY <2>1, <2>2, <2>3, ValueKept DEF OverOf
<1>4. CASE DoHold
  <2>1. Doing("hold") /\ UNCHANGED <<base, over, prof, active, web, strayed>>
    BY <1>4 DEF DoHold
  <2>2. nv'.base = nv.base
    BY <1>4, <1>t DEF DoHold, NvRec
  <2>3. OverlayAhead => OverlayAhead'
    BY <2>1, StillAhead
  <2> QED
    BY <2>1, <2>2, <2>3, ValueKept DEF OverOf
<1>5. CASE DoSave
  <2>1. Doing("save") /\ UNCHANGED <<base, over, prof, active, web, strayed>>
    BY <1>5 DEF DoSave
  <2>2. nv'.base = nv.base
    BY <1>5, <1>t DEF DoSave, NvRec
  <2>3. OverlayAhead => OverlayAhead'
    BY <2>1, StillAhead
  <2> QED
    BY <2>1, <2>2, <2>3, ValueKept DEF OverOf
<1>6. CASE DoDrop
  <2>1. Doing("drop") /\ UNCHANGED <<base, over, active, nv, web, strayed>>
    BY <1>6 DEF DoDrop
  <2>2. PICK i \in Slots : Head(todo).id = i /\ active # i
    BY <2>1, DropNext
  <2>3. \A j \in Slots \ {i} : prof'[j] = prof[j]
    BY <1>6, <1>t, <2>2 DEF DoDrop, Own
  <2>4. OverOf' = OverOf
    BY <1>a, <2>1, <2>2, <2>3 DEF OverOf
  <2>5. OverlayAhead => OverlayAhead'
    BY <2>1, StillAhead
  <2> QED
    BY <2>1, <2>4, <2>5, ValueKept
<1>7. CASE DoErase
  <2>1. Doing("erase") /\ UNCHANGED <<base, over, web>> /\ nv' = [Fresh EXCEPT !.base = nv.base]
    BY <1>7 DEF DoErase
  <2>2. web.pc = "values"
    BY <2>1, EraseNext
  <2>3. nv'.base = nv.base
    BY <2>1, FreshIs DEF NvRec
  <2> QED
    BY <2>1, <2>2, <2>3 DEF ValueInv
<1> QED
  BY <1>1, <1>2, <1>3, <1>4, <1>5, <1>6, <1>7

LEMMA CallValue ==
    ASSUME ProfTypes, LockInv, ValueInv,
           \/ \E r \in Rules, v \in OwnValues, s \in BOOLEAN : CreateProfile(r, v, s)
           \/ \E i \in Slots, r \in Rules, v \in Values \cup {NoVal} : UpdateProfile(i, r, v)
           \/ \E i \in Slots : DeleteProfile(i)
           \/ \E id \in 0..ProfilesMax : SelectByHand(id)
    PROVE  ValueInv'
<1>t. prof \in Own /\ active \in 0..ProfilesMax
  BY DEF ProfTypes
<1>a. (active # 0 => active \in Slots) /\ Usable(active)
  BY <1>t, ProfilesAssumption DEF Slots, LockInv
<1>1. Call /\ CallUnchanged
  BY DEF CreateProfile, UpdateProfile, DeleteProfile, SelectByHand
<1>2. ~OverlayAhead /\ UNCHANGED <<base, over, active, nv, web, strayed>>
  BY <1>1, NoneAhead DEF Call, CallUnchanged
<1>3. ASSUME OverlayAhead' \/ OverOf' = OverOf PROVE ValueInv'
  BY <1>2, <1>3, ValueKept
<1>4. ASSUME NEW r \in Rules, NEW v \in OwnValues, NEW s \in BOOLEAN, CreateProfile(r, v, s)
      PROVE  OverOf' = OverOf
  <2>1. PICK i \in Slots :
          ~prof[i].used /\ prof' = [prof EXCEPT ![i] = [used |-> TRUE, set |-> v, rule |-> r]]
    BY <1>4 DEF CreateProfile
  <2>2. active # i /\ \A j \in Slots \ {i} : prof'[j] = prof[j]
    BY <1>a, <1>t, <2>1 DEF Own, Usable, Slots
  <2> QED
    BY <1>a, <1>2, <2>2 DEF OverOf
<1>5. ASSUME NEW i \in Slots, NEW r \in Rules, NEW v \in Values \cup {NoVal}, UpdateProfile(i, r, v)
      PROVE  OverlayAhead' \/ OverOf' = OverOf
  <2>1. /\ prof' = [prof EXCEPT ![i] = [prof[i] EXCEPT !.set = v, !.rule = r]]
        /\ todo' = <<Save(i)>> \o (IF i = active THEN <<Overlay>> ELSE <<>>)
    BY <1>5, <1>t DEF UpdateProfile, Own
  <2>2. CASE i = active
    <3>1. todo' = <<Save(i), Overlay>>
      BY <2>1, <2>2, Join11
    <3>2. \A a, b : 2 \in DOMAIN <<a, b>> /\ <<a, b>>[2] = b
      OBVIOUS
    <3>3. 2 \in DOMAIN todo' /\ todo'[2] = Overlay
      BY <3>1, <3>2
    <3>4. Overlay.do = "overlay"
      BY DEF Overlay
    <3> QED
      BY <3>3, <3>4 DEF OverlayAhead
  <2>3. CASE i # active
    <3>1. \A j \in Slots \ {i} : prof'[j] = prof[j]
      BY <1>t, <2>1 DEF Own
    <3> QED
      BY <1>a, <1>2, <2>3, <3>1 DEF OverOf
  <2> QED
    BY <2>2, <2>3
<1>6. CASE (\E i \in Slots : DeleteProfile(i)) \/ \E id \in 0..ProfilesMax : SelectByHand(id)
  <2>1. prof' = prof
    BY <1>6 DEF DeleteProfile, SelectByHand
  <2> QED
    BY <1>2, <1>3, <2>1 DEF OverOf
<1> QED
  BY <1>3, <1>4, <1>5, <1>6

LEMMA SettingValue ==
    ASSUME ProfTypes, LockInv, ValueInv,
           \/ \E v \in Values : SetValue(v)
           \/ PersistValue \/ StoreValue \/ ResetFlash \/ ResetProfiles \/ ResetValues
    PROVE  ValueInv'
<1>t. /\ prof \in Own /\ nv \in NvRec /\ active \in 0..ProfilesMax /\ web \in WebRec
      /\ strayed \in BOOLEAN
  BY DEF ProfTypes
<1>a. active # 0 => active \in Slots
  BY <1>t, ProfilesAssumption DEF Slots
<1>i. WebIdle.pc = "idle"
  BY DEF WebIdle
<1>1. ASSUME NEW v \in Values, SetValue(v) PROVE ValueInv'
  <2>1. /\ web.pc = "idle" /\ UNCHANGED <<prof, active, nv, todo>>
        /\ strayed' = (strayed \/ OverlayAhead)
        /\ web' = IF Eff = v THEN WebIdle
                  ELSE [pc |-> IF active = 0 THEN "persist" ELSE "store", v |-> v]
        /\ active = 0 => base' = v /\ over' = over
        /\ active # 0 => over' = (IF Eff = v THEN over ELSE v) /\ base' = base
    BY <1>1 DEF SetValue, OverlayAhead
  <2>2. OverOf' = OverOf /\ OverlayAhead' = OverlayAhead
    BY <2>1 DEF OverOf, OverlayAhead
  <2>3. web'.pc \in {"idle", "persist", "store"}
    BY <1>i, <2>1
  <2>4. CASE strayed \/ OverlayAhead
    BY <1>t, <2>1, <2>3, <2>4 DEF ValueInv
  <2>5. CASE ~strayed /\ ~OverlayAhead
    <3>1. base = nv.base /\ over = OverOf
      BY <2>1, <2>5 DEF ValueInv
    <3>2. CASE Eff = v
      <4>1. web'.pc = "idle"
        BY <1>i, <2>1, <3>2
      <4>2. base' = base /\ over' = over
        BY <2>1, <3>1, <3>2 DEF Eff, EffOf, OverOf
      <4> QED
        BY <2>1, <2>2, <3>1, <4>1, <4>2 DEF ValueInv
    <3>3. CASE Eff # v /\ active = 0
      <4>1. web'.pc = "persist" /\ web'.v = v /\ base' = v /\ over' = over
        BY <2>1, <3>3
      <4> QED
        BY <2>1, <2>2, <3>1, <4>1 DEF ValueInv
    <3>4. CASE Eff # v /\ active # 0
      <4>1. web'.pc = "store" /\ web'.v = v /\ base' = base /\ over' = v
        BY <2>1, <3>4
      <4> QED
        BY <2>1, <2>2, <3>1, <3>4, <4>1 DEF ValueInv
    <3> QED
      BY <3>2, <3>3, <3>4
  <2> QED
    BY <1>t, <2>4, <2>5
<1>2. CASE PersistValue
  <2>1. /\ web.pc = "persist" /\ web'.pc = "idle" /\ UNCHANGED <<base, over, prof, todo, active, strayed>>
    BY <1>2, <1>i DEF PersistValue, WebUnchanged
  <2>2. nv'.base = web.v
    BY <1>2, <1>t DEF PersistValue, NvRec
  <2>3. OverOf' = OverOf /\ OverlayAhead' = OverlayAhead
    BY <2>1 DEF OverOf, OverlayAhead
  <2> QED
    BY <2>1, <2>2, <2>3 DEF ValueInv
<1>3. CASE StoreValue
  <2>1. /\ web.pc = "store" /\ web'.pc = "idle" /\ LockFree /\ UNCHANGED <<base, over, nv, active, strayed>>
    BY <1>3, <1>i DEF StoreValue, WebUnchanged
  <2>2. ~OverlayAhead
    BY <2>1, NoneAhead
  <2>3. CASE strayed
    BY <2>1, <2>3 DEF ValueInv
  <2>4. CASE ~strayed
    <3>1. active # 0 /\ over = web.v /\ base = nv.base
      BY <2>1, <2>2, <2>4 DEF ValueInv
    <3>2. prof' = [prof EXCEPT ![active] = [prof[active] EXCEPT !.set = web.v]]
      BY <1>3, <3>1 DEF StoreValue
    <3>3. prof'[active].set = web.v
      BY <1>t, <1>a, <3>1, <3>2 DEF Own, OwnRec
    <3>4. OverOf' = web.v
      BY <2>1, <3>1, <3>3 DEF OverOf
    <3> QED
      BY <2>1, <3>1, <3>4 DEF ValueInv
  <2> QED
    BY <2>3, <2>4
<1>4. CASE ResetFlash
  <2>1. /\ web.pc = "idle" /\ web'.pc = "profiles" /\ LockFree
        /\ UNCHANGED <<base, over, prof, todo, active, strayed>>
    BY <1>4 DEF ResetFlash, Call, WebIdle
  <2>2. nv'.base = Def
    BY <1>4, <1>t DEF ResetFlash, NvRec
  <2>3. OverOf' = OverOf /\ OverlayAhead' = OverlayAhead
    BY <2>1 DEF OverOf, OverlayAhead
  <2> QED
    BY <2>1, <2>2, <2>3 DEF ValueInv
<1>5. CASE ResetProfiles
  <2>1. web.pc = "profiles" /\ web'.pc = "values" /\ nv' = nv
    BY <1>5, <1>t DEF ResetProfiles, WebRec
  <2> QED
    BY <2>1 DEF ValueInv
<1>6. CASE ResetValues
  <2>1. /\ web.pc = "values" /\ web'.pc = "idle" /\ base' = Def /\ over' = NoVal
        /\ UNCHANGED <<nv, active>>
    BY <1>6, <1>i DEF ResetValues, WebUnchanged
  <2>2. nv.base = Def /\ active = 0
    BY <2>1 DEF ValueInv, LockInv
  <2>3. OverOf' = NoVal
    BY <2>1, <2>2 DEF OverOf
  <2> QED
    BY <2>1, <2>2, <2>3 DEF ValueInv
<1> QED
  BY <1>1, <1>2, <1>3, <1>4, <1>5, <1>6

LEMMA AutoValue ==
    ASSUME ProfTypes, LockInv, ValueInv,
           \/ \E look \in Looks(dev) : AutoTick(look)
           \/ AutoAsk \/ AutoPick \/ AutoSelect \/ AutoValues
           \/ AutoAllow \/ AutoCec \/ AutoRestart \/ Calm \/ ProfCrash \/ Swap
    PROVE  ValueInv'
<1>t. nv \in NvRec
  BY DEF ProfTypes
<1>1. CASE \/ \E look \in Looks(dev) : AutoTick(look)
           \/ AutoAsk \/ AutoPick \/ AutoValues \/ AutoAllow \/ AutoCec \/ Calm \/ Swap
  <2>1. UNCHANGED <<base, over, prof, active, todo, web, strayed>>
    BY <1>1 DEF AutoTick, AutoAsk, AutoPick, AutoValues, AutoAllow, AutoCec, Calm, Swap, AutoAt, AutoUnchanged,
                keepVars
  <2>2. nv'.base = nv.base
    BY <1>1, <1>t DEF AutoTick, AutoAsk, AutoPick, AutoValues, AutoAllow, AutoCec, Calm, Swap, NvRec
  <2>3. OverOf' = OverOf /\ OverlayAhead' = OverlayAhead
    BY <2>1 DEF OverOf, OverlayAhead
  <2> QED
    BY <2>1, <2>2, <2>3, ValueKept
<1>2. CASE AutoSelect
  <2>1. UNCHANGED <<base, over, prof, active, nv, web, strayed>> /\ LockFree
    BY <1>2 DEF AutoSelect, AutoAt, AutoUnchanged
  <2>2. OverOf' = OverOf /\ ~OverlayAhead
    BY <2>1, NoneAhead DEF OverOf
  <2> QED
    BY <2>1, <2>2, ValueKept
<1>3. CASE AutoRestart \/ ProfCrash
  <2>1. Booted(nv) /\ nv' = nv /\ (nv.active = 0 \/ nv.prof[nv.active].used)
    BY <1>3 DEF AutoRestart, ProfCrash, LockInv
  <2>2. /\ base' = nv.base /\ prof' = nv.prof /\ active' = nv.active
        /\ over' = (IF nv.active = 0 THEN NoVal ELSE nv.prof[nv.active].set)
        /\ web' = WebIdle
    BY <2>1, BootIs
  <2>3. over' = OverOf' /\ web'.pc = "idle"
    BY <2>2 DEF OverOf, WebIdle
  <2> QED
    BY <2>1, <2>2, <2>3 DEF ValueInv
<1> QED
  BY <1>1, <1>2, <1>3

LEMMA StepValue == ASSUME ProfTypes, LockInv, ValueInv, [ProfNext]_profVars PROVE ValueInv'
<1>1. CASE UNCHANGED profVars
  <2>1. UNCHANGED <<base, over, prof, active, todo, web, strayed, nv>>
    BY <1>1 DEF profVars, keepVars
  <2>2. OverOf' = OverOf /\ OverlayAhead' = OverlayAhead
    BY <2>1 DEF OverOf, OverlayAhead
  <2> QED
    BY <2>1, <2>2, ValueKept
<1>2. CASE DoActive
  <2>1. nv'.base = nv.base /\ UNCHANGED <<base, over, web, strayed, todo, prof, active>>
    BY <1>2, KeyWritten
  <2>2. OverlayAhead' = OverlayAhead /\ OverOf' = OverOf
    BY <2>1 DEF OverlayAhead, OverOf
  <2> QED
    BY <2>1, <2>2, ValueKept
<1> QED
  BY <1>1, <1>2, DoValue, CallValue, SettingValue, AutoValue DEF ProfNext

----------------------------------------------------------------------------
(* The choice by hand. *)
LEMMA HandKept ==
    ASSUME HandInv, UNCHANGED <<hand, undone, active, byHand>>,
           nv'.active = nv.active, nv'.byHand = nv.byHand,
           todo = <<Erase>> => todo' = <<Erase>>,
           auto'.pc = auto.pc \/ auto'.pc \notin {"pick", "select"}
    PROVE  HandInv'
BY DEF HandInv

LEMMA NoHandIs == ASSUME HandInv, hand' = NoHand, undone' = undone PROVE HandInv'
<1>1. hand'.id = 0
  BY DEF NoHand
<1> QED
  BY <1>1 DEF HandInv

(* No step but the erasure itself is left to do when it is erasing.        *)
LEMMA NotErasing == ASSUME todo # <<>>, Head(todo).do # "erase" PROVE todo # <<Erase>>
BY Tuples DEF Erase

LEMMA FreeIsDone == ASSUME LockFree PROVE todo # <<Erase>>
BY DEF LockFree

LEMMA DoHand ==
    ASSUME ProfTypes, LockInv, HandInv,
           DoSwitch \/ DoOverlay \/ DoManual \/ DoHold \/ DoSave \/ DoDrop \/ DoErase
    PROVE  HandInv'
<1>t. nv \in NvRec /\ hand \in HandRec /\ byHand \in BOOLEAN
  BY DEF ProfTypes
<1>1. CASE DoSwitch \/ DoErase
  BY <1>1, NoHandIs DEF DoSwitch, DoErase, Doing
<1>2. CASE DoOverlay \/ DoSave \/ DoDrop
  <2>1. /\ UNCHANGED <<hand, undone, active, byHand, auto>>
        /\ todo # <<>> /\ Head(todo).do # "erase"
    BY <1>2 DEF DoOverlay, DoSave, DoDrop, Doing
  <2>2. nv'.active = nv.active /\ nv'.byHand = nv.byHand
    BY <1>2, <1>t DEF DoOverlay, DoSave, DoDrop, NvRec
  <2> QED
    BY <2>1, <2>2, NotErasing, HandKept
<1>3. CASE DoManual
  <2>1. /\ UNCHANGED <<hand, undone, active, byHand, auto>>
        /\ todo # <<>> /\ Head(todo).do # "erase"
    BY <1>3 DEF DoManual, Doing
  <2>2. nv'.active = active /\ nv'.byHand = byHand
    BY <1>3, <1>t DEF DoManual, NvRec
  <2> QED
    BY <2>1, <2>2, NotErasing DEF HandInv
<1>4. CASE DoHold
  <2>1. Doing("hold") /\ UNCHANGED <<undone, active, byHand, auto>>
    BY <1>4 DEF DoHold, Doing
  <2>2. CASE Deciding
    BY <1>4, <2>1, <2>2, NoHandIs DEF DoHold
  <2>3. CASE ~Deciding
    <3>1. hand'.id = active
      BY <1>4, <2>3 DEF DoHold
    <3>2. nv'.active = nv.active /\ nv'.byHand = nv.byHand
      BY <1>4, <1>t DEF DoHold, NvRec
    <3>3. byHand /\ active = nv.active /\ (active # 0 => byHand = nv.byHand)
      BY <2>1, HoldNext DEF SameChoice
    <3>4. auto'.pc \notin {"pick", "select"}
      BY <2>1, <2>3 DEF Deciding
    <3> QED
      BY <2>1, <3>1, <3>2, <3>3, <3>4 DEF HandInv
  <2> QED
    BY <2>2, <2>3
<1> QED
  BY <1>1, <1>2, <1>3, <1>4

LEMMA CallHand ==
    ASSUME ProfTypes, LockInv, HandInv,
           \/ \E r \in Rules, v \in OwnValues, s \in BOOLEAN : CreateProfile(r, v, s)
           \/ \E i \in Slots, r \in Rules, v \in Values \cup {NoVal} : UpdateProfile(i, r, v)
           \/ \E i \in Slots : DeleteProfile(i)
           \/ \E id \in 0..ProfilesMax : SelectByHand(id)
           \/ \E v \in Values : SetValue(v)
           \/ PersistValue \/ StoreValue \/ ResetFlash \/ ResetProfiles \/ ResetValues
    PROVE  HandInv'
<1>t. nv \in NvRec
  BY DEF ProfTypes
<1>1. CASE \/ \E r \in Rules, v \in OwnValues, s \in BOOLEAN : CreateProfile(r, v, s)
           \/ \E i \in Slots, r \in Rules, v \in Values \cup {NoVal} : UpdateProfile(i, r, v)
           \/ \E i \in Slots : DeleteProfile(i)
           \/ \E id \in 0..ProfilesMax : SelectByHand(id)
  <2>1. LockFree /\ UNCHANGED <<hand, undone, active, byHand, auto, nv>>
    BY <1>1 DEF CreateProfile, UpdateProfile, DeleteProfile, SelectByHand, Call, CallUnchanged
  <2> QED
    BY <2>1, FreeIsDone, HandKept
<1>2. CASE StoreValue
  <2>1. LockFree /\ UNCHANGED <<hand, undone, active, byHand, auto, nv>>
    BY <1>2 DEF StoreValue, WebUnchanged
  <2> QED
    BY <2>1, FreeIsDone, HandKept
<1>3. CASE (\E v \in Values : SetValue(v)) \/ PersistValue \/ ResetFlash \/ ResetValues
  <2>1. UNCHANGED <<hand, undone, active, byHand, auto, todo>>
    BY <1>3 DEF SetValue, PersistValue, ResetFlash, ResetValues, WebUnchanged
  <2>2. nv'.active = nv.active /\ nv'.byHand = nv.byHand
    BY <1>3, <1>t DEF SetValue, PersistValue, ResetFlash, ResetValues, NvRec
  <2> QED
    BY <2>1, <2>2, HandKept
<1>4. CASE ResetProfiles
  <2>1. todo' = <<Erase>> /\ UNCHANGED <<hand, undone, nv>>
    BY <1>4 DEF ResetProfiles
  <2> QED
    BY <2>1 DEF HandInv
<1> QED
  BY <1>1, <1>2, <1>3, <1>4

LEMMA AutoHand ==
    ASSUME ProfTypes, LockInv, HandInv,
           \/ \E look \in Looks(dev) : AutoTick(look)
           \/ AutoAsk \/ AutoPick \/ AutoSelect \/ AutoValues
           \/ AutoAllow \/ AutoCec \/ AutoRestart \/ Calm \/ ProfCrash \/ Swap
    PROVE  HandInv'
<1>t. nv \in NvRec /\ auto \in AutoRec
  BY DEF ProfTypes
<1>1. CASE \/ \E look \in Looks(dev) : AutoTick(look)
           \/ AutoValues \/ AutoAllow \/ AutoCec \/ Calm \/ Swap
  <2>1. UNCHANGED <<hand, undone, active, byHand, todo>>
    BY <1>1 DEF AutoTick, AutoValues, AutoAllow, AutoCec, Calm, Swap, AutoUnchanged, keepVars
  <2>2. nv'.active = nv.active /\ nv'.byHand = nv.byHand
    BY <1>1, <1>t DEF AutoTick, AutoValues, AutoAllow, AutoCec, Calm, Swap, NvRec
  <2>3. auto'.pc = auto.pc \/ auto'.pc \notin {"pick", "select"}
    <3>1. ASSUME NEW look \in Looks(dev), AutoTick(look)
          PROVE  auto'.pc = auto.pc \/ auto'.pc \notin {"pick", "select"}
      <4> DEFINE n == IF auto.still = 2 THEN 2 ELSE auto.still + 1
      <4>1. \/ auto' = [auto EXCEPT !.last = look, !.still = 0]
            \/ auto' = [auto EXCEPT !.still = n, !.acted = look, !.pc = "ask"]
            \/ auto' = [auto EXCEPT !.still = n, !.pc = "values"]
        BY <3>1 DEF AutoTick
      <4> HIDE DEF n
      <4> QED
        BY <1>t, <4>1 DEF AutoRec
    <3>2. CASE AutoValues \/ AutoAllow \/ AutoCec
      BY <1>t, <3>2 DEF AutoValues, AutoAllow, AutoCec, AutoRec
    <3>3. CASE Calm \/ Swap
      BY <3>3 DEF Calm, Swap
    <3> QED
      BY <1>1, <3>1, <3>2, <3>3
  <2> QED
    BY <2>1, <2>2, <2>3, HandKept
<1>2. CASE AutoAsk
  <2>1. UNCHANGED <<undone, active, byHand, todo>>
    BY <1>2 DEF AutoAsk, AutoUnchanged
  <2>2. nv'.active = nv.active /\ nv'.byHand = nv.byHand
    BY <1>2, <1>t DEF AutoAsk, NvRec
  <2>3. CASE nv.seen # auto.last
    BY <1>2, <2>1, <2>3, NoHandIs DEF AutoAsk
  <2>4. CASE nv.seen = auto.last
    <3>1. hand' = hand /\ (byHand => auto' = [auto EXCEPT !.pc = "values"])
      BY <1>2, <2>4 DEF AutoAsk
    <3>2. byHand => auto'.pc = "values"
      BY <1>t, <3>1 DEF AutoRec
    <3> QED
      BY <2>1, <2>2, <3>1, <3>2 DEF HandInv
  <2> QED
    BY <2>3, <2>4
<1>3. CASE AutoPick \/ AutoSelect
  <2>1. LockFree /\ auto.pc \in {"pick", "select"} /\ hand' = hand
    BY <1>3 DEF AutoPick, AutoSelect, AutoAt
  <2>2. hand.id = 0 /\ undone \subseteq {0}
    BY <2>1, FreeIsDone DEF HandInv
  <2>3. undone' = undone \/ undone' = undone \cup (IF Usable(auto.id) /\ auto.id # active /\ hand.fp = auto.last
                                                   THEN {hand.id} ELSE {})
    BY <1>3 DEF AutoPick, AutoSelect
  <2>4. undone' \subseteq {0}
    BY <2>2, <2>3
  <2> QED
    BY <2>1, <2>2, <2>4 DEF HandInv
<1>4. CASE AutoRestart \/ ProfCrash
  <2>1. Booted(nv) /\ UNCHANGED <<nv, hand, undone>> /\ (nv.active = 0 \/ nv.prof[nv.active].used)
    BY <1>4 DEF AutoRestart, ProfCrash, LockInv
  <2>2. active' = nv.active /\ byHand' = (nv.active # 0 /\ nv.byHand) /\ auto' = AutoIdle
    BY <2>1, BootIs
  <2>3. auto'.pc = "idle"
    BY <2>2 DEF AutoIdle
  <2> QED
    BY <2>1, <2>2, <2>3 DEF HandInv
<1> QED
  BY <1>1, <1>2, <1>3, <1>4

LEMMA StepHand == ASSUME ProfTypes, LockInv, HandInv, [ProfNext]_profVars PROVE HandInv'
<1>1. CASE UNCHANGED profVars
  BY <1>1, HandKept DEF profVars, keepVars
<1>2. CASE DoActive
  <2>1. todo # <<Erase>>
    <3>1. todo # <<>> /\ Head(todo).do # "erase"
      BY <1>2 DEF DoActive, Active
    <3> QED
      BY <3>1, NotErasing
  <2>2. nv'.active = active /\ nv'.byHand = nv.byHand
        /\ UNCHANGED <<active, byHand, todo, auto, hand, undone>>
    BY <1>2, KeyWritten
  <2> QED
    BY <2>1, <2>2 DEF HandInv
<1> QED
  BY <1>1, <1>2, DoHand, CallHand, AutoHand DEF ProfNext

----------------------------------------------------------------------------
LEMMA InitProf == ASSUME ProfInit PROVE ProfInv
<1>1. PICK p \in Earlier :
        /\ nv = [Fresh EXCEPT !.prof = p]
        /\ base = nv.base /\ over = NoVal /\ prof = p /\ active = 0 /\ byHand = FALSE
        /\ seenFp = Nobody /\ todo = <<>> /\ web = WebIdle /\ auto = AutoIdle
        /\ dev \in Devices
        /\ strayed = FALSE /\ hand = NoHand /\ undone = {} /\ inRow = 0
  BY DEF ProfInit
<1>2. p \in Own
  <2>1. p \in [Slots -> [used : BOOLEAN, set : Values \cup {-1}, rule : [cec : STRING, os : STRING]]]
    BY ProfilesAssumption DEF Slots
  <2>2. \A i \in Slots : p[i] \in OwnRec
    BY <2>1 DEF OwnRec, Faces, Words, NoVal
  <2> QED
    BY <2>1, <2>2 DEF Own
<1>3. nv \in NvRec
  BY <1>1, <1>2, FreshIs DEF NvRec
<1>4. /\ nv.base = Def /\ nv.prof = p /\ nv.active = 0 /\ nv.restarts = 0 /\ nv.cec = NoName
  <2>1. Fresh.base = Def
    BY DEF Fresh
  <2> QED
    BY <1>1, <2>1, FreshIs DEF NvRec
<1>5. auto.pc = "idle" /\ web.pc = "idle" /\ hand.id = 0
  BY <1>1 DEF AutoIdle, WebIdle, NoHand
<1>6. ProfTypes
  <2>1. FALSE \in BOOLEAN
    OBVIOUS
  <2>2. AutoIdle \in AutoRec
    BY <2>1, FaceIs, ZeroIs DEF AutoIdle, AutoRec, AutoPcs
  <2>3. WebIdle \in WebRec /\ Def \in Values
    BY ProfilesAssumption DEF WebIdle, WebRec
  <2>4. dev \in Faces
    BY <1>1, ProfilesAssumption DEF Faces, Words
  <2>5. byHand \in BOOLEAN /\ strayed \in BOOLEAN
    BY <1>1
  <2> QED
    BY <1>1, <1>2, <1>3, <1>4, <2>2, <2>3, <2>4, <2>5, FaceIs, ZeroIs, HandIs DEF ProfTypes
<1>7. RowInv
  <2>1. Decided = 0
    BY <1>5 DEF Decided
  <2>2. Counted
    BY <1>1, <1>4, <2>1 DEF Counted
  <2> QED
    BY <1>1, <1>4, <1>5, <2>2, ProfilesAssumption DEF RowInv
<1>8. LockInv
  BY <1>1, <1>4, <1>5 DEF LockInv, Resting, Same, SameChoice, Usable
<1>9. ValueInv
  BY <1>1, <1>4, <1>5 DEF ValueInv, OverOf
<1>10. HandInv
  BY <1>1, <1>5 DEF HandInv
<1> QED
  BY <1>6, <1>7, <1>8, <1>9, <1>10 DEF ProfInv

(* kvm_profiles.c, profile_auto.c: flash, memory, the count of restarts    *)
(* and the choice by hand agree as ProfInv says in every state.            *)
THEOREM ProfilesStaySound == ProfSpec => []ProfInv
<1>1. ProfInit => ProfInv
  BY InitProf
<1>2. ProfInv /\ [ProfNext]_profVars => ProfInv'
  BY StepTypes, StepRow, StepLock, StepValue, StepHand DEF ProfInv
<1> QED
  BY <1>1, <1>2, PTL DEF ProfSpec

(* kvm_profiles_restart_allowed: with one device attached and no calm in   *)
(* between, the device restarts for a profile no more than RestartsMax     *)
(* times in a row, wherever power goes.                                    *)
THEOREM RestartsStayFew == ProfSpec => []TwoRestarts
<1>1. ProfInv => TwoRestarts
  <2> SUFFICES ASSUME ProfInv PROVE TwoRestarts
    OBVIOUS
  <2>1. /\ inRow \in Int /\ nv.restarts \in Nat /\ RestartsMax \in Nat
        /\ nv.restarts <= RestartsMax /\ inRow + Decided <= nv.restarts
    BY ProfilesAssumption DEF ProfInv, ProfTypes, RowInv, Counted, NvRec
  <2>2. Decided \in {0, 1}
    BY DEF Decided
  <2> QED
    BY <2>1, <2>2 DEF TwoRestarts
<1> QED
  BY <1>1, ProfilesStaySound, PTL

(* kvm_profiles_device_settled: the task never gives up a profile of one's *)
(* own that was chosen by hand for the device that is attached.            *)
THEOREM OwnChoiceHolds == ProfSpec => []OwnHolds
<1>1. ProfInv => OwnHolds
  BY DEF ProfInv, HandInv, OwnHolds
<1> QED
  BY <1>1, ProfilesStaySound, PTL

(* kvm_profiles.c, kvm_settings.c: between two calls a boot would make of  *)
(* flash what is in effect, whichever write power last went at.            *)
THEOREM BootAlwaysKeeps == ProfSpec => []BootKeeps
<1>1. ProfInv => BootKeeps
  <2> SUFFICES ASSUME ProfInv, LockFree, web.pc = "idle", ~strayed
               PROVE  /\ prof = nv.prof /\ base = nv.base
                      /\ active = BootActive(nv) /\ (active # 0 => byHand = nv.byHand)
                      /\ Eff = BootEff(nv)
    BY DEF BootKeeps
  <2>1. Same /\ SameChoice
    BY LockFreeIs DEF ProfInv
  <2>2. nv.active = 0 \/ nv.prof[nv.active].used
    BY DEF ProfInv, LockInv
  <2>3. BootActive(nv) = active
    BY <2>1, <2>2 DEF BootActive, SameChoice
  <2>4. base = nv.base /\ over = OverOf
    BY NoneAhead DEF ProfInv, ValueInv
  <2>5. BootOver(nv) = OverOf
    BY <2>1, <2>3 DEF BootOver, OverOf, Same
  <2> QED
    BY <2>1, <2>3, <2>4, <2>5 DEF Same, SameChoice, Eff, BootEff
<1> QED
  BY <1>1, ProfilesStaySound, PTL
=============================================================================
