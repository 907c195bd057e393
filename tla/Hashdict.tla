------------------------------- MODULE Hashdict -------------------------------
(***************************************************************************)
(* chjds::hashdict (common-include/include/hashdict.h), a dictionary after *)
(* Python 3.7's compact dict: `trove' keeps the entries in the order they  *)
(* were added, `slots' is an open-addressing table of indexes into it.     *)
(* Deleting leaves a dummy in both; growing, shrinking and compacting      *)
(* rebuild the slots from the trove.  Enumerators walk the trove and lock  *)
(* it with a session count, which postpones whatever would move entries.   *)
(*                                                                         *)
(* The code's tuning numbers are constants, so that small instances reach  *)
(* every threshold.  Indexes into the trove start at 1 here.  A loop that  *)
(* would not end is a call that returns Hang.  Memory is never short, and  *)
(* a value is what a client stores: object lifetimes are left out.         *)
(***************************************************************************)
EXTENDS Integers, Sequences, FiniteSets

CONSTANTS
  Key, Value, Enumor,
  NoKey,               \* a null or freed key pointer
  HashOf,              \* cal_hashfull(), per key
  InitialDictWidth,    \* 3 in the code
  PerturbShift,        \* 5
  GiveUp,              \* 64/PerturbShift+2: in_get() may stop after these probes
  TroveInitSize,       \* 16
  TroveExtendOnceMax,  \* 20000
  PctFullToResize,     \* 66
  PctDummyToCompact,   \* 50
  ShrinkLowMark,       \* 4
  ShrinkHighMark,      \* 1000
  MaxWidth,            \* bound: no call that needs wider slots is made
  MaxRenames,          \* bound: how often key_rename() may succeed
  HungrySlots,         \* what SetDbgParams() may be given
  FromKeys,            \* the fromkey arguments enumerators are made with
  Calls                \* the calls this client makes

\* 1 << n.
Pow2[n \in Nat] == IF n = 0 THEN 1 ELSE 2 * Pow2[n - 1]

ASSUME TuningAssumption ==
  /\ NoKey \notin Key
  /\ HashOf \in [Key -> Nat]
  /\ InitialDictWidth \in Nat \ {0} /\ MaxWidth \in Nat /\ MaxWidth >= InitialDictWidth
  /\ PerturbShift \in Nat \ {0} /\ GiveUp \in Nat
  /\ \A k \in Key : HashOf[k] < Pow2[PerturbShift * GiveUp]
  /\ TroveInitSize \in Nat \ {0, 1} /\ TroveExtendOnceMax \in Nat \ {0, 1}
  /\ PctFullToResize \in 1..99 /\ PctDummyToCompact \in 0..99
  /\ ShrinkLowMark \in Nat /\ ShrinkLowMark <= Pow2[InitialDictWidth]
  /\ ShrinkHighMark \in Nat /\ MaxRenames \in Nat
  /\ HungrySlots \subseteq Int /\ FromKeys \subseteq Key \cup {NoKey}

VARIABLES
  width,      \* m_dict_width; 0 for a dict that was never set
  slots,      \* msa_slots, the m_slots_capacity ones in use
  active,     \* m_slots_active
  dummies,    \* m_slots_dummy
  highmark,   \* m_slots_highmark
  resizepct,  \* m_resize_pct, or m_hungry_slots when not positive
  trove,      \* the m_trove_ploughs entries of msa_trove
  trovecap,   \* m_trove_capacity
  trovedead,  \* m_trove_dummies
  sessions,   \* m_enuming_sessions
  pending,    \* DF_PendingShrink
  enumors,    \* the client's enumor objects
  renames,    \* how often key_rename() succeeded (for the bound)
  ret         \* the last call, its argument and what it returned

slotVars  == <<width, slots, dummies>>
troveVars == <<trove, trovecap, trovedead>>
dictVars  == <<width, slots, active, dummies, highmark, resizepct, trove,
               trovecap, trovedead, sessions, pending>>
vars      == <<width, slots, active, dummies, highmark, resizepct, trove,
               trovecap, trovedead, sessions, pending, enumors, renames, ret>>

SlotEmpty == 0      \* a slot in use holds its index into the trove
SlotDummy == -1
Dead      == [key |-> NoKey, val |-> NoKey]     \* TroventDummy
Hang      == <<"hang">>

LeastOf(S)      == CHOOSE x \in S : \A y \in S : x <= y
LowerOf(a, b)   == IF a <= b THEN a ELSE b
HigherOf(a, b)  == IF a >= b THEN a ELSE b

--------------------------------------------------------------------------------
(***************************************************************************)
(* Probing.  LCGen yields for every key a path through the slots; once the *)
(* perturbation is used up it visits each slot in turn, for ever.  The     *)
(* paths below are long enough for every loop that ends.                   *)
(***************************************************************************)
PathLength(w) == GiveUp + 3 + 2 * Pow2[w]

\* LCGen: the values next() returns for mask 2^w - 1 and perturbation h.
Path(h, w) ==
  LET lcg[i \in 0..PathLength(w)] ==
        IF i = 0 THEN [cur |-> 0, perturb |-> h]
        ELSE LET last == lcg[i - 1]
             IN  [cur     |-> (last.cur * 5 + 1 + last.perturb) % Pow2[w],
                  perturb |-> last.perturb \div Pow2[PerturbShift]]
  IN  [i \in 1..PathLength(w) |-> lcg[i].cur]

Paths == [w \in InitialDictWidth..MaxWidth |-> [k \in Key |-> Path(HashOf[k], w)]]

Never == PathLength(MaxWidth) + 1

\* The first probe that lands in S.
Landing(path, S) == LET hits == {i \in DOMAIN path : path[i] \in S}
                    IN  IF hits = {} THEN Never ELSE LeastOf(hits)

\* The probe at which a loop that allows for n probes sees its first slot again.
WrapAfter(path, n) == LeastOf({i \in n + 3 .. Len(path) : path[i] = path[1]})

InUse(sl)   == {s \in DOMAIN sl : sl[s] > 0}
Empties(sl) == {s \in DOMAIN sl : sl[s] = SlotEmpty}
Dummies(sl) == {s \in DOMAIN sl : sl[s] = SlotDummy}
NoSlots(w)  == [s \in 0 .. Pow2[w] - 1 |-> SlotEmpty]

\* Mutation: the hash is compared and not the key.
HoldersByHash(sl, k) == {s \in InUse(sl) : HashOf[trove[sl[s]].key] = HashOf[k]}

\* IsKeyFoundAtSlot().
Holders(sl, k) == {s \in InUse(sl) : trove[sl[s]].key = k}

\* The entries of trove tr but for the deleted ones.
LiveOf(tr) ==
  LET upto[i \in 0..Len(tr)] ==
        IF i = 0 THEN <<>>
        ELSE IF tr[i] = Dead THEN upto[i - 1] ELSE Append(upto[i - 1], tr[i])
  IN  upto[Len(tr)]

\* The slots RebuildSlotsFromTrove() fills from trove tr.
Rebuilt(w, tr) ==
  LET upto[i \in 0..Len(tr)] ==
        IF i = 0 THEN NoSlots(w)
        ELSE IF tr[i] = Dead THEN upto[i - 1]
        ELSE LET path == Paths[w][tr[i].key]
                 last == upto[i - 1]
             IN  [last EXCEPT ![path[Landing(path, Empties(last))]] = i]
  IN  upto[Len(tr)]

\* in_get(): the slot of key k, or -1.
Find(k) ==
  IF width = 0 THEN -1
  ELSE LET path == Paths[width][k]
           at   == Landing(path, Holders(slots, k) \cup Empties(slots))
       IN  IF at < WrapAfter(path, GiveUp) /\ path[at] \in InUse(slots) THEN path[at] ELSE -1

--------------------------------------------------------------------------------
FreshEnumor(from) == [from |-> from, started |-> FALSE, ended |-> FALSE, next |-> 0]

InProgress(e) == enumors[e].started /\ ~enumors[e].ended

Init ==
  /\ width = 0 /\ slots = [s \in {} |-> SlotEmpty]
  /\ active = 0 /\ dummies = 0 /\ highmark = 0 /\ resizepct = 0
  /\ trove = <<>> /\ trovecap = 0 /\ trovedead = 0
  /\ sessions = 0 /\ pending = FALSE
  /\ enumors = [e \in Enumor |-> FreshEnumor(NoKey)]
  /\ renames = 0
  /\ ret = <<"clear", TRUE>>

Calling(call) == call \in Calls /\ ret # Hang

Answers(r) == ret' = r /\ UNCHANGED <<dictVars, enumors, renames>>

--------------------------------------------------------------------------------
(***************************************************************************)
(* set() and setdefault().  SetKey() first makes room in the slots, so     *)
(* they may be rebuilt even when it then adds nothing.                     *)
(***************************************************************************)
ActiveOnly      == active                     \* mutation: dummies are not counted
slots_non_empty == active + dummies

Threshold(w, pct) == IF pct > 0 THEN (Pow2[w] * pct) \div 100 ELSE Pow2[w] + pct

\* The dict after init_if_dumb() and CheckToIncreaseSlots().
Sized ==
  LET dumb == width = 0
      w    == IF dumb THEN InitialDictWidth ELSE width
      pct  == IF dumb THEN PctFullToResize ELSE resizepct
  IN  IF slots_non_empty < Threshold(w, pct)
      THEN [width |-> w, pct |-> pct, slots |-> IF dumb THEN NoSlots(w) ELSE slots,
            dummies |-> dummies]
      ELSE [width |-> w + 1, pct |-> pct, slots |-> Rebuilt(w + 1, trove), dummies |-> 0]

\* Where SetKey() stops: the key's slot or an empty one; Never if it gives up.
SetLanding(sized, k) ==
  LET path == Paths[sized.width][k]
      at   == Landing(path, Holders(sized.slots, k) \cup Empties(sized.slots))
  IN  IF at < WrapAfter(path, GiveUp + Pow2[sized.width]) THEN at ELSE Never

\* _MID_(TroveInitSize, m_trove_capacity, TroveExtendOnceMax)
TroveIncrement == LowerOf(HigherOf(TroveInitSize, trovecap), TroveExtendOnceMax)

\* RequestTroveEntry(): a dummy at the trove's tail is used again.
ReusedAlways == trove # <<>>                  \* mutation: the tail's state is ignored
ReusedTail == trove # <<>> /\ trove[Len(trove)] = Dead
TroveKept  == IF ReusedTail THEN SubSeq(trove, 1, Len(trove) - 1) ELSE trove

\* OneEmptyAtTroveEnd: the last entry stays empty.
TroveFull == trovecap = 0 \/ Len(TroveKept) = trovecap - 1

RequestTroveEntry(k, v) ==
  /\ trove' = Append(TroveKept, [key |-> k, val |-> v])
  /\ trovedead' = trovedead - IF ReusedTail THEN 1 ELSE 0
  /\ trovecap' = trovecap + IF TroveFull THEN TroveIncrement ELSE 0

\* The slot a new key takes: the first dummy its probe saw, or the empty one.
SlotToUse(sized, path, at) ==
  LET seen == {i \in 1 .. at - 1 : path[i] \in Dummies(sized.slots)}
  IN  IF seen = {} THEN path[at] ELSE path[LeastOf(seen)]

DummiesLeft(sized, use, slot) == sized.dummies - IF use = slot THEN 0 ELSE 1

MayAddKeys == sessions <= 0

SetKey(k, v, overwrite) ==
  LET sized == Sized
      path  == Paths[sized.width][k]
      at    == SetLanding(sized, k)
      slot  == path[at]
      use   == SlotToUse(sized, path, at)
  IN  /\ Calling(IF overwrite THEN "Set" ELSE "SetDefault")
      /\ sized.width <= MaxWidth
      /\ width' = sized.width /\ resizepct' = sized.pct
      /\ UNCHANGED <<sessions, pending, enumors, renames>>
      /\ \/ /\ at # Never => sized.slots[slot] = SlotEmpty /\ ~MayAddKeys
            /\ slots' = sized.slots /\ dummies' = sized.dummies
            /\ ret' = <<"set", k>>
            /\ UNCHANGED <<active, highmark, troveVars>>
         \/ /\ at # Never /\ sized.slots[slot] > 0
            /\ slots' = sized.slots /\ dummies' = sized.dummies
            /\ trove' = IF overwrite
                        THEN [trove EXCEPT ![sized.slots[slot]].val = v] ELSE trove
            /\ ret' = <<"set", k, trove'[sized.slots[slot]].val>>
            /\ UNCHANGED <<active, highmark, trovecap, trovedead>>
         \/ /\ at # Never /\ sized.slots[slot] = SlotEmpty /\ MayAddKeys
            /\ RequestTroveEntry(k, v)
            /\ slots' = [sized.slots EXCEPT ![use] = Len(trove')]
            /\ dummies' = DummiesLeft(sized, use, slot)
            /\ active' = active + 1
            /\ highmark' = HigherOf(highmark, active + 1)
            /\ ret' = <<"set", k, v>>

Get(k) ==
  /\ Calling("Get")
  /\ Answers(IF Find(k) = -1 THEN <<"get", k>> ELSE <<"get", k, trove[slots[Find(k)]].val>>)

--------------------------------------------------------------------------------
(***************************************************************************)
(* Deleting, and what it may set off.                                      *)
(***************************************************************************)
\* SetDictWidth(w) followed by CompactTrove() on trove tr.
CompactTo(w, tr) ==
  /\ width' = w /\ slots' = Rebuilt(w, LiveOf(tr)) /\ dummies' = 0
  /\ trove' = LiveOf(tr) /\ trovecap' = Len(LiveOf(tr)) + 1 /\ trovedead' = 0

\* Mutation: an enumeration postpones nothing.
NeverPostponed(sess) == FALSE
Postponed(sess) == sess # 0

\* CheckToCompactSlotAndTrove(), for sess sessions, on a dict with these parts.
CheckToCompact(sess, sl, ac, dm, tr, dead) ==
  LET shrinks  == ~Postponed(sess) /\ highmark >= ShrinkHighMark /\ ac <= ShrinkLowMark
      compacts == /\ ~Postponed(sess) /\ ~shrinks /\ Len(tr) > TroveInitSize
                  /\ (dead * 100) \div Len(tr) > PctDummyToCompact
  IN  /\ pending' = Postponed(sess)
      /\ highmark' = IF shrinks THEN ac ELSE highmark
      /\ \/ shrinks /\ CompactTo(InitialDictWidth, tr)
         \/ compacts /\ CompactTo(width, tr)
         \/ /\ ~shrinks /\ ~compacts
            /\ slots' = sl /\ dummies' = dm /\ trove' = tr /\ trovedead' = dead
            /\ UNCHANGED <<width, trovecap>>

VacatedEmpty(slot) == [slots EXCEPT ![slot] = SlotEmpty]   \* mutation: paths are cut
Vacated(slot)      == [slots EXCEPT ![slot] = SlotDummy]

\* in_del() has no bound on its probes.
Del(k) ==
  /\ Calling("Del")
  /\ IF width = 0 THEN Answers(<<"del", k, FALSE>>)
     ELSE
     LET path == Paths[width][k]
         at   == Landing(path, Holders(slots, k) \cup Empties(slots))
         slot == path[at]
     IN \/ at = Never /\ Answers(Hang)
        \/ at # Never /\ slots[slot] = SlotEmpty /\ Answers(<<"del", k, FALSE>>)
        \/ /\ at # Never /\ slots[slot] > 0
           /\ active' = active - 1
           /\ CheckToCompact(sessions, Vacated(slot), active - 1,
                             dummies + 1, [trove EXCEPT ![slots[slot]] = Dead], trovedead + 1)
           /\ ret' = <<"del", k, TRUE>>
           /\ UNCHANGED <<resizepct, sessions, enumors, renames>>

(***************************************************************************)
(* key_rename(): neither the dummy it leaves behind nor the dummy it may   *)
(* take is counted.                                                        *)
(***************************************************************************)
LeftBehind(old) == [slots EXCEPT ![old] = SlotDummy]

NameTaken(new) == Find(new) # -1

KeyRename(k, new) ==
  LET old  == Find(k)
      left == LeftBehind(old)
      path == Paths[width][new]
      use  == path[Landing(path, Empties(left) \cup Dummies(left))]
  IN  /\ Calling("KeyRename")
      /\ \/ (old = -1 \/ NameTaken(new)) /\ Answers(<<"rename", k, new, FALSE>>)
         \/ /\ old # -1 /\ ~NameTaken(new)
            /\ renames < MaxRenames
            /\ renames' = renames + 1
            /\ slots' = [left EXCEPT ![use] = slots[old]]
            /\ trove' = [trove EXCEPT ![slots[old]].key = new]
            /\ ret' = <<"rename", k, new, TRUE>>
            /\ UNCHANGED <<width, active, dummies, highmark, resizepct, trovecap,
                           trovedead, sessions, pending, enumors>>

\* compact(): the narrowest slots that hold the active keys, even filled up.
CompactWidth == LeastOf({w \in InitialDictWidth .. MaxWidth : active <= Pow2[w]})

Compact ==
  /\ Calling("Compact")
  /\ \/ width # 0 /\ sessions > 0 /\ Answers(<<"compact", FALSE>>)
     \/ width = 0 /\ Answers(<<"compact", TRUE>>)
     \/ /\ width # 0 /\ sessions <= 0
        /\ CompactTo(CompactWidth, trove)
        /\ ret' = <<"compact", TRUE>>
        /\ UNCHANGED <<active, highmark, resizepct, sessions, pending, enumors, renames>>

Clear ==
  /\ Calling("Clear")
  /\ \/ width # 0 /\ sessions > 0 /\ Answers(<<"clear", FALSE>>)
     \/ width = 0 /\ Answers(<<"clear", TRUE>>)
     \/ /\ width # 0 /\ sessions <= 0
        /\ width' = 0 /\ slots' = [s \in {} |-> SlotEmpty]
        /\ active' = 0 /\ dummies' = 0 /\ highmark' = 0 /\ resizepct' = 0
        /\ trove' = <<>> /\ trovecap' = 0 /\ trovedead' = 0
        /\ sessions' = 0 /\ pending' = FALSE
        /\ ret' = <<"clear", TRUE>>
        /\ UNCHANGED <<enumors, renames>>

\* SetDbgParams(): a percentage, or how many slots are left empty.
SetDbgParams(pct) ==
  /\ Calling("SetDbgParams")
  /\ resizepct' = pct
  /\ ret' = <<"dbg">>
  /\ UNCHANGED <<slotVars, active, highmark, troveVars, sessions, pending, enumors, renames>>

\* The client goes on with a copy of the dict, made by construction or
\* assignment, and has no enumeration under way.
CopyDict ==
  /\ Calling("CopyDict")
  /\ \A e \in Enumor : ~InProgress(e)
  /\ highmark' = active
  /\ sessions' = 0 /\ pending' = FALSE
  /\ ret' = <<"copy">>
  /\ UNCHANGED <<slotVars, active, resizepct, troveVars, enumors, renames>>

--------------------------------------------------------------------------------
(***************************************************************************)
(* Enumerating.  enumor_helper_st counts outputs; one or more are the      *)
(* same to it.  An enumerator that has ended holds no position.            *)
(***************************************************************************)
\* DecreaseSessionCount().
DecreaseSessionCount(sess) ==
  /\ sessions' = sess
  /\ IF sess = 0 /\ pending
     THEN CheckToCompact(sess, slots, active, dummies, trove, trovedead)
     ELSE UNCHANGED <<slotVars, highmark, troveVars, pending>>

NextLive(from) == LET live == {i \in from .. Len(trove) : trove[i] # Dead}
                  IN  IF live = {} THEN 0 ELSE LeastOf(live)

EndsSession(e) == enumors[e].started

\* Where next() goes on; 0 when fromkey is not there.
StartOf(e) ==
  LET from == enumors[e].from
  IN  IF enumors[e].started THEN enumors[e].next
      ELSE IF from = NoKey THEN 1
      ELSE IF Find(from) = -1 THEN 0 ELSE slots[Find(from)]

EnumNext(e) ==
  LET start == StartOf(e)
      found == IF start = 0 THEN 0 ELSE NextLive(start)
  IN  /\ Calling("EnumNext")
      /\ UNCHANGED <<active, resizepct, renames>>
      /\ \/ /\ enumors[e].ended
            /\ ret' = <<"next", e>>
            /\ UNCHANGED <<slotVars, highmark, troveVars, sessions, pending, enumors>>
         \/ /\ ~enumors[e].ended /\ found # 0
            /\ enumors' = [enumors EXCEPT ![e] = [from |-> enumors[e].from, started |-> TRUE,
                                                ended |-> FALSE, next |-> found + 1]]
            /\ sessions' = sessions + IF enumors[e].started THEN 0 ELSE 1
            /\ ret' = <<"next", e, trove[found].key>>
            /\ UNCHANGED <<slotVars, highmark, troveVars, pending>>
         \/ /\ ~enumors[e].ended /\ found = 0
            /\ enumors' = [enumors EXCEPT ![e] = [from |-> enumors[e].from, ended |-> TRUE,
                                                started |-> enumors[e].started, next |-> 0]]
            /\ ret' = <<"next", e>>
            /\ IF EndsSession(e) THEN DecreaseSessionCount(sessions - 1)
               ELSE UNCHANGED <<slotVars, highmark, troveVars, sessions, pending>>

\* Mutation: an interrupted walk keeps its session.
SessionsKept(e) == sessions
SessionsAfterReset(e) == sessions - 1

\* reset(), or destruction followed by construction with another fromkey.
EnumReset(e, from) ==
  /\ Calling("EnumReset")
  /\ enumors' = [enumors EXCEPT ![e] = FreshEnumor(from)]
  /\ ret' = <<"reset", e>>
  /\ IF InProgress(e) THEN DecreaseSessionCount(SessionsAfterReset(e))
     ELSE UNCHANGED <<slotVars, highmark, troveVars, sessions, pending>>
  /\ UNCHANGED <<active, resizepct, renames>>

\* The copy-constructor C++ gives the enumerator: e2 is made from e.  A client
\* that copies one in mid-walk has "EnumCopyWalking" among its calls.
EnumCopy(e, e2) ==
  /\ Calling("EnumCopy")
  /\ InProgress(e) => "EnumCopyWalking" \in Calls
  /\ ~InProgress(e2) /\ e # e2
  /\ enumors' = [enumors EXCEPT ![e2] = enumors[e]]
  /\ ret' = <<"reset", e2>>
  /\ UNCHANGED <<dictVars, renames>>

\* get_keys(): an enumeration from first to last within the call.
GetKeys ==
  LET live == LiveOf(trove)
  IN  /\ Calling("GetKeys")
      /\ ret' = <<"keys", [i \in DOMAIN live |-> live[i].key]>>
      /\ IF live = <<>> THEN UNCHANGED <<slotVars, highmark, troveVars, sessions, pending>>
         ELSE DecreaseSessionCount(sessions)
      /\ UNCHANGED <<active, resizepct, enumors, renames>>

--------------------------------------------------------------------------------
Next ==
  \/ \E k \in Key, v \in Value, overwrite \in BOOLEAN : SetKey(k, v, overwrite)
  \/ \E k \in Key : Get(k) \/ Del(k) \/ \E new \in Key : KeyRename(k, new)
  \/ Compact \/ Clear \/ CopyDict \/ GetKeys
  \/ \E pct \in HungrySlots : SetDbgParams(pct)
  \/ \E e \in Enumor : \/ EnumNext(e)
                       \/ \E from \in FromKeys : EnumReset(e, from)
                       \/ \E e2 \in Enumor : EnumCopy(e, e2)

Spec == Init /\ [][Next]_vars

--------------------------------------------------------------------------------
(***************************************************************************)
(* Properties.                                                             *)
(***************************************************************************)

\* The counters stay within the arrays they describe, and the trove always
\* has room for the empty entry that ends its scans.
TypeOK ==
  /\ width \in {0} \cup InitialDictWidth .. MaxWidth
  /\ slots \in [IF width = 0 THEN {} ELSE 0 .. Pow2[width] - 1 -> -1 .. Len(trove)]
  /\ active \in 0 .. Len(trove) /\ highmark >= active
  /\ dummies \in -MaxRenames .. Pow2[width] + MaxRenames
  /\ resizepct \in Int
  /\ trove \in Seq([key : Key, val : Value] \cup {Dead})
  /\ trovecap \in Nat /\ (trove # <<>> => Len(trove) < trovecap)
  /\ trovedead \in 0 .. Len(trove)
  /\ sessions \in Int /\ pending \in BOOLEAN /\ renames \in 0 .. MaxRenames
  /\ enumors \in [Enumor -> [from : Key \cup {NoKey}, started : BOOLEAN,
                             ended : BOOLEAN, next : Nat]]

\* Slots and trove hold the same keys: each live entry has one slot, no slot
\* points at a deleted one, and keycount() is their number.  The dummies that
\* decide when the slots grow are the dummies there are, as long as no key is
\* renamed: key_rename() leaves and takes them uncounted.
SlotsMirrorTrove ==
  /\ TypeOK
  /\ \A i \in DOMAIN trove : trove[i] # Dead =>
       Cardinality({s \in InUse(slots) : slots[s] = i}) = 1
  /\ \A s \in InUse(slots) : trove[slots[s]] # Dead
  /\ active = Cardinality(InUse(slots))
  /\ trovedead = Len(trove) - active
  /\ renames = 0 => dummies = Cardinality(Dummies(slots))

\* No call goes round the slots for ever.
Terminates == ret # Hang

\* in_get() "would return idxTrove of the matching key": it finds every key.
FindsEveryKey ==
  \A i \in DOMAIN trove : trove[i] # Dead =>
     Find(trove[i].key) # -1 /\ slots[Find(trove[i].key)] = i

\* The session count is the number of walks under way, and shrinking stays
\* postponed only as long as there is one: after the last walk, however it
\* ended, the dict takes new keys again.
SessionsExact ==
  /\ sessions = Cardinality({e \in Enumor : InProgress(e)})
  /\ pending => sessions > 0

\* The client sees an ordered dictionary.
Passed(e) == IF InProgress(e)
             THEN Cardinality({i \in DOMAIN trove : i < enumors[e].next /\ trove[i] # Dead})
             ELSE 0

Dict == INSTANCE OrderedDict WITH
          entries <- LiveOf(trove),
          walks <- [e \in Enumor |-> [from |-> enumors[e].from, going |-> InProgress(e),
                                      ended |-> enumors[e].ended, passed |-> Passed(e)]]

ImplementsOrderedDict == Dict!Spec
===============================================================================
