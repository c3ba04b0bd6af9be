--------------------------- MODULE Toolbar_proofs ---------------------------
(***************************************************************************)
(* The invariants of Toolbar, for every set of toolbars, every size of the *)
(* registry and every load of core 1.                                      *)
(***************************************************************************)
EXTENDS Toolbar, WellFoundedInduction, TLAPS

-----------------------------------------------------------------------------
(* The envelope of core 0 and the cycles of core 1.                        *)
Envelope == {"wait", "shift", "drop", "disable", "pop", "draw", "release"}

(* Core 0 holds the flag, and has no message under way.                    *)
PauseInv ==
    /\ c0 \in Envelope => pause = TRUE
    /\ c0 # "await" => icm = "none"

(* A cycle that slips in has passed the test of the flag before.           *)
LateInv ==
    /\ late \in {0, 1}
    /\ c0 \in Envelope /\ c1 = "begin" => late = 0

CycleInv == c1 \in {"scan", "fetch", "render", "fault"} => tb_c1_state = "RENDERING"

QuietInv ==
    load = {} =>
        /\ c1 # "begin"
        /\ c0 \in Envelope \ {"wait"} => tb_c1_state = "IDLE"

IInv == PauseInv /\ LateInv /\ CycleInv /\ QuietInv

LEMMA Core0Steps ==
    ASSUME IInv, Starts \/ Continues, UNCHANGED load
    PROVE  IInv'
<1> USE DEF IInv, PauseInv, LateInv, CycleInv, QuietInv, Envelope, core1, cycle, core0, seen
<1>1. ASSUME NEW t \in Toolbars, Activate(t) PROVE IInv'
  BY <1>1 DEF Activate
<1>2. ASSUME NEW o, NEW t, Begin(o, t) PROVE IInv'
  BY <1>2 DEF Begin
<1>3. CASE ActivateCount
  BY <1>3 DEF ActivateCount
<1>4. CASE Prepare
  BY <1>4 DEF Prepare, PauseInPrepare
<1>5. CASE WaitDone
  BY <1>5 DEF WaitDone, CycleOver, Inside
<1>6. CASE WaitTimesOut
  BY <1>6 DEF WaitTimesOut, Inside
<1>7. CASE Unregister
  BY <1>7 DEF Unregister
<1>8. CASE UnregisterCount \/ Disable
  BY <1>8 DEF UnregisterCount, Disable
<1>9. CASE Pop
  BY <1>9 DEF Pop
<1>10. CASE Draw \/ Release
  BY <1>10 DEF Draw, Release
<1>11. CASE Kick \/ KickDone
  BY <1>11 DEF Kick, KickDone
<1> QED
  BY <1>1, <1>2, <1>3, <1>4, <1>5, <1>6, <1>7, <1>8, <1>9, <1>10, <1>11 DEF Starts, Continues

LEMMA Core1Steps ==
    ASSUME IInv, Core1, UNCHANGED load
    PROVE  IInv'
<1> USE DEF IInv, PauseInv, LateInv, CycleInv, QuietInv, Envelope, cycle, core0, seen
<1>1. CASE ServiceIdle \/ ServiceDrained \/ ServiceRender
  BY <1>1 DEF ServiceIdle, ServiceDrained, ServiceRender
<1>2. CASE ScanTest \/ ScanFetch
  BY <1>2 DEF ScanTest, ScanFetch
<1>3. CASE RenderSkip
  BY <1>3 DEF RenderSkip
<1>4. CASE Render
  BY <1>4 DEF Render
<1>5. CASE TickTest
  <2>1. UNCHANGED <<c0, pause, icm, late, tb_c1_state>> /\ c1 = "tick"
        /\ c1' \in {"begin", "icm"} /\ (c1' = "begin" => ~pause /\ load # {})
    BY <1>5 DEF TickTest
  <2> QED  BY <2>1
<1>6. CASE TickBegin
  BY <1>6 DEF TickBegin, BeginUpdate
<1>7. CASE Message
  BY <1>7 DEF Message, BeginUpdate, Completion
<1> QED  BY <1>1, <1>2, <1>3, <1>4, <1>5, <1>6, <1>7 DEF Core1

LEMMA InvariantHolds == Spec => []IInv
<1> USE DEF IInv, PauseInv, LateInv, CycleInv, QuietInv
<1>1. Init => IInv
  BY DEF Init, Envelope
<1>2. IInv /\ [Next]_<<load, vars>> => IInv'
  <2> SUFFICES ASSUME IInv, [Next]_<<load, vars>> PROVE IInv'
    OBVIOUS
  <2>1. CASE FrameSent \/ Switch
    BY <2>1 DEF FrameSent, Switch, core0, core1, cycle, seen, Next
  <2>2. CASE UNCHANGED <<load, vars>>
    BY <2>2 DEF vars, core0, core1, cycle, seen
  <2> QED  BY <2>1, <2>2, Core0Steps, Core1Steps DEF Next
<1> QED  BY <1>1, <1>2, PTL DEF Spec

(* However long the registry and whatever core 1 has to do: of the cycles  *)
(* of the periodic update, one at most begins while core 0 draws.          *)
THEOREM OneLateCycle == Spec => []AtMostOneLateCycle
<1>1. IInv => AtMostOneLateCycle
  BY DEF IInv, LateInv, AtMostOneLateCycle
<1> QED  BY <1>1, InvariantHolds, PTL

(* Without the periodic update and the timeout, the flag and the wait      *)
(* keep the cores apart.                                                   *)
THEOREM QuietDrawing == Spec => []QuietDrawingIsExclusive
<1>1. IInv => QuietDrawingIsExclusive
  BY DEF IInv, QuietInv, Envelope, QuietDrawingIsExclusive, DrawingIsExclusive
<1> QED  BY <1>1, InvariantHolds, PTL

-----------------------------------------------------------------------------
(* The registry.  Exact(r, n, E): the first n slots of r hold the members  *)
(* of E, and besides at most toolbars that may be activated twice; all     *)
(* other ones are there once; those anchored to the bottom come first.     *)
Slots == 0..MaxCount-1
Registries == [Slots -> Toolbars \cup {NULL}]

Exact(r, n, E) ==
    /\ \A i \in 0..n-1 : r[i] \in E \cup Reactivated
    /\ \A t \in E : \E i \in 0..n-1 : r[i] = t
    /\ \A i, j \in 0..n-1 : r[i] = r[j] /\ r[i] \notin Reactivated => i = j
    /\ \A i, j \in 0..n-1 : i < j /\ r[j] \in Anchored => r[i] \in Anchored

Active == {t \in Toolbars : enabled[t]}

(* While core 0 is in a call, the count may be behind the slots, or a      *)
(* toolbar that has left be active.                                        *)
Count == CASE c0 = "count" -> toolbar_count + 1
           [] c0 = "drop"  -> toolbar_count - 1
           [] OTHER        -> toolbar_count

Members == IF c0 \in {"drop", "disable"} THEN Active \ {arg} ELSE Active

RegistryInv ==
    /\ toolbar_registry \in Registries /\ enabled \in [Toolbars -> BOOLEAN]
    /\ toolbar_count \in Nat /\ Count \in 0..MaxCount
    /\ Exact(toolbar_registry, Count, Members)
    /\ \A i \in Slots : i >= Count /\ i >= toolbar_count => toolbar_registry[i] = NULL

CallInv ==
    /\ c0 = "count" => op = "activate"
    /\ c0 \in {"prepare", "wait"} /\ op = "teardown" => arg \in Active
    /\ c0 = "shift" => arg \in Active
    /\ c0 \in {"drop", "disable"} => arg \in Toolbars

RInv == RegistryInv /\ CallInv

LEMMA Sizes == MaxCount \in Nat \ {0} /\ NULL \notin Toolbars /\ Reactivated \subseteq Toolbars
  BY ToolbarAssumption

LEMMA Smallest ==
    ASSUME NEW S \in SUBSET Nat, S # {}
    PROVE  \E m \in S : \A k \in S : m <= k
<1> DEFINE R == {p \in Nat \X Nat : p[1] < p[2]}
<1>1. OpToRel(<, Nat) = R
  BY DEF OpToRel
<1>2. IsWellFoundedOn(R, Nat)
  BY <1>1, NatLessThanWellFounded
<1> HIDE DEF R
<1>3. \E m \in S : \A k \in S : ~(<<k, m>> \in R)
  BY <1>2, WFMin
<1>4. ASSUME NEW m \in Nat, NEW k \in Nat, ~(<<k, m>> \in R) PROVE m <= k
  <2>1. <<k, m>> \in Nat \X Nat /\ <<k, m>>[1] = k /\ <<k, m>>[2] = m
    OBVIOUS
  <2>2. ~(k < m)
    BY <1>4, <2>1 DEF R
  <2> QED  BY <2>2
<1> QED  BY <1>3, <1>4

(* The ways in which the code changes the slots.                           *)
OnTopOf(r, n, t) == [r EXCEPT ![n] = t]
AtTheBottomOf(r, n, t) ==
    [i \in 0..MaxCount-1 |-> IF i = 0 THEN t ELSE IF i <= n THEN r[i - 1] ELSE r[i]]
Popped(r, n) == [r EXCEPT ![n - 1] = NULL]
Shifted(r, n, at) ==
    [i \in 0..MaxCount-1 |-> IF at <= i /\ i < n - 1 THEN r[i + 1] ELSE r[i]]

LEMMA OnTopIsExact ==
    ASSUME NEW r \in Registries, NEW n \in Nat, n < MaxCount, NEW E \in SUBSET Toolbars,
           Exact(r, n, E), NEW t \in Toolbars, t \in E => t \in Reactivated, t \notin Anchored
    PROVE  LET q == OnTopOf(r, n, t) IN
           /\ q \in Registries /\ Exact(q, n + 1, E \cup {t})
           /\ \A i \in Slots : i > n => q[i] = r[i]
<1> DEFINE q == OnTopOf(r, n, t)
<1>1. n \in Slots
  BY Sizes DEF Slots
<1>2. q \in Registries /\ q[n] = t /\ \A i \in Slots : i # n => q[i] = r[i]
  BY <1>1 DEF Registries, OnTopOf
<1> HIDE DEF q
<1>3. \A i \in 0..n : i \in Slots /\ (i = n \/ i \in 0..n-1)
  BY <1>1, Sizes DEF Slots
<1>4. \A i \in 0..n-1 : i \in 0..n /\ i # n /\ q[i] = r[i]
  BY <1>2, <1>3
<1>5. \A i \in 0..n : q[i] \in (E \cup {t}) \cup Reactivated
  BY <1>2, <1>3, <1>4 DEF Exact
<1>6. ASSUME NEW u \in E \cup {t} PROVE \E i \in 0..n : q[i] = u
  <2>1. CASE u = t
    BY <1>2, <2>1
  <2>2. CASE u \in E
    BY <1>4, <2>2 DEF Exact
  <2> QED  BY <2>1, <2>2
<1>7. \A i, j \in 0..n : q[i] = q[j] /\ q[i] \notin Reactivated => i = j
  BY <1>2, <1>3, <1>4 DEF Exact
<1>8. ASSUME NEW i \in 0..n, NEW j \in 0..n, i < j, q[j] \in Anchored PROVE q[i] \in Anchored
  <2>1. j # n
    BY <1>2, <1>8
  <2>2. i \in 0..n-1 /\ j \in 0..n-1
    BY <1>8, <2>1
  <2> QED  BY <1>4, <1>8, <2>2 DEF Exact
<1>9. n + 1 - 1 = n /\ \A i \in Slots : i > n => i # n
  BY DEF Slots
<1> QED  BY <1>2, <1>5, <1>6, <1>7, <1>8, <1>9 DEF Exact, q

LEMMA AtTheBottomIsExact ==
    ASSUME NEW r \in Registries, NEW n \in Nat, n < MaxCount, NEW E \in SUBSET Toolbars,
           Exact(r, n, E), NEW t \in Toolbars, t \in E => t \in Reactivated, t \in Anchored
    PROVE  LET q == AtTheBottomOf(r, n, t) IN
           /\ q \in Registries /\ Exact(q, n + 1, E \cup {t})
           /\ \A i \in Slots : i > n => q[i] = r[i]
<1> DEFINE q == AtTheBottomOf(r, n, t)
<1>1. \A i \in 0..n : i \in Slots /\ (i = 0 \/ (i # 0 /\ i - 1 \in 0..n-1))
  BY Sizes DEF Slots
<1>2. q \in Registries
  <2>1. ASSUME NEW i \in 0..MaxCount-1
        PROVE  (IF i = 0 THEN t ELSE IF i <= n THEN r[i - 1] ELSE r[i]) \in Toolbars \cup {NULL}
    <3>1. i # 0 => i - 1 \in Slots
      BY Sizes DEF Slots
    <3> QED  BY <3>1 DEF Registries, Slots
  <2> QED  BY <2>1 DEF Registries, Slots, AtTheBottomOf
<1>3. /\ q[0] = t
      /\ \A i \in 0..n : i # 0 => q[i] = r[i-1]
      /\ \A i \in Slots : i > n => q[i] = r[i]
  BY <1>1, Sizes DEF Slots, AtTheBottomOf
<1> HIDE DEF q
<1>4. ASSUME NEW i \in 0..n PROVE i = 0 \/ (i # 0 /\ i - 1 \in 0..n-1 /\ q[i] = r[i-1])
  BY <1>1, <1>3
<1>5. \A i \in 0..n-1 : i + 1 \in 0..n /\ i + 1 # 0 /\ (i + 1) - 1 = i
  OBVIOUS
<1>6. \A i \in 0..n : q[i] \in (E \cup {t}) \cup Reactivated
  BY <1>3, <1>4 DEF Exact
<1>7. ASSUME NEW u \in E \cup {t} PROVE \E i \in 0..n : q[i] = u
  <2>1. CASE u = t
    BY <1>3, <2>1
  <2>2. CASE u \in E
    <3>1. PICK i \in 0..n-1 : r[i] = u
      BY <2>2 DEF Exact
    <3>2. q[i + 1] = u /\ i + 1 \in 0..n
      BY <1>3, <1>5, <3>1
    <3> QED  BY <3>2
  <2> QED  BY <2>1, <2>2
<1>8. ASSUME NEW i \in 0..n, NEW j \in 0..n, q[i] = q[j], q[i] \notin Reactivated PROVE i = j
  <2>1. i # 0 => q[i] \in E
    BY <1>4, <1>8 DEF Exact
  <2>2. j # 0 => q[j] \in E
    BY <1>4, <1>8 DEF Exact
  <2>3. i # 0 /\ j # 0 => i - 1 = j - 1
    BY <1>4, <1>8 DEF Exact
  <2> QED  BY <1>3, <1>8, <2>1, <2>2, <2>3
<1>9. ASSUME NEW i \in 0..n, NEW j \in 0..n, i < j, q[j] \in Anchored PROVE q[i] \in Anchored
  <2>1. CASE i = 0
    BY <1>3, <2>1
  <2>2. CASE i # 0
    <3>1. i - 1 \in 0..n-1 /\ j - 1 \in 0..n-1 /\ i - 1 < j - 1
      BY <1>9, <2>2
    <3>2. q[i] = r[i-1] /\ q[j] = r[j-1]
      BY <1>3, <1>9, <2>2
    <3> QED  BY <1>9, <3>1, <3>2 DEF Exact
  <2> QED  BY <2>1, <2>2
<1>10. n + 1 - 1 = n
  OBVIOUS
<1> QED  BY <1>2, <1>3, <1>6, <1>7, <1>8, <1>9, <1>10 DEF Exact, q

LEMMA PoppedIsExact ==
    ASSUME NEW r \in Registries, NEW n \in Nat, 0 < n, n <= MaxCount, NEW E \in SUBSET Toolbars,
           Exact(r, n, E)
    PROVE  LET q == Popped(r, n) IN
           /\ q \in Registries /\ Exact(q, n - 1, E \ {r[n-1]}) /\ r[n-1] \in Toolbars
           /\ q[n-1] = NULL /\ \A i \in Slots : i # n - 1 => q[i] = r[i]
<1> DEFINE q == Popped(r, n)
<1>1. n - 1 \in Slots /\ n - 1 \in 0..n-1 /\ r[n-1] \in Toolbars
  BY Sizes DEF Slots, Exact
<1>2. q \in Registries /\ q[n-1] = NULL /\ \A i \in Slots : i # n - 1 => q[i] = r[i]
  BY <1>1 DEF Registries, Popped
<1> HIDE DEF q
<1>3. \A i \in 0..(n-1)-1 : i \in 0..n-1 /\ i # n - 1 /\ i \in Slots
  BY Sizes DEF Slots
<1>4. \A i \in 0..(n-1)-1 : /\ q[i] = r[i] /\ i \in 0..n-1
                            /\ r[i] = r[n-1] => r[i] \in Reactivated
  BY <1>1, <1>2, <1>3 DEF Exact
<1>5. ASSUME NEW u \in E \ {r[n-1]} PROVE \E i \in 0..(n-1)-1 : q[i] = u
  <2>1. PICK i \in 0..n-1 : r[i] = u
    BY <1>5 DEF Exact
  <2>2. i \in 0..(n-1)-1
    BY <1>5, <2>1
  <2> QED  BY <1>4, <2>1, <2>2
<1>6. \A i \in 0..(n-1)-1 : q[i] \in (E \ {r[n-1]}) \cup Reactivated
  BY <1>4 DEF Exact
<1>7. \A i, j \in 0..(n-1)-1 : q[i] = q[j] /\ q[i] \notin Reactivated => i = j
  BY <1>4 DEF Exact
<1>8. \A i, j \in 0..(n-1)-1 : i < j /\ q[j] \in Anchored => q[i] \in Anchored
  BY <1>4 DEF Exact
<1> QED  BY <1>1, <1>2, <1>5, <1>6, <1>7, <1>8 DEF Exact, q

(* Taking an entry out shifts the ones above it down.                      *)
LEMMA ShiftedIsExact ==
    ASSUME NEW r \in Registries, NEW n \in Nat, n <= MaxCount, NEW E \in SUBSET Toolbars,
           Exact(r, n, E), NEW at \in 0..n-1
    PROVE  LET q == Shifted(r, n, at) IN
           /\ q \in Registries /\ Exact(q, n - 1, E \ {r[at]}) /\ 0 < n
           /\ \A i \in Slots : i >= n => q[i] = r[i]
<1> DEFINE q == Shifted(r, n, at)
           up(i) == IF at <= i THEN i + 1 ELSE i
<1>1. 0 < n
  OBVIOUS
<1>2. q \in Registries
  <2>1. ASSUME NEW i \in 0..MaxCount-1
        PROVE  (IF at <= i /\ i < n - 1 THEN r[i + 1] ELSE r[i]) \in Toolbars \cup {NULL}
    <3>1. i < n - 1 => i + 1 \in Slots
      BY Sizes DEF Slots
    <3> QED  BY <3>1 DEF Registries, Slots
  <2> QED  BY <2>1 DEF Registries, Slots, Shifted
<1>3. ASSUME NEW i \in 0..(n-1)-1 PROVE q[i] = r[up(i)]
  BY Sizes DEF Shifted
<1>4. \A i \in Slots : i >= n => q[i] = r[i]
  BY Sizes DEF Slots, Shifted
<1> HIDE DEF q
<1>5. ASSUME NEW i \in 0..(n-1)-1 PROVE up(i) \in 0..n-1 /\ up(i) # at
  OBVIOUS
<1>6. ASSUME NEW i \in 0..(n-1)-1, NEW j \in 0..(n-1)-1
      PROVE  (up(i) = up(j) => i = j) /\ (i < j => up(i) < up(j))
  OBVIOUS
<1>7. ASSUME NEW k \in 0..n-1, k # at PROVE \E i \in 0..(n-1)-1 : up(i) = k
  <2>1. CASE k < at
    BY <2>1
  <2>2. CASE k > at
    <3>1. k - 1 \in 0..(n-1)-1 /\ up(k - 1) = k
      BY <2>2
    <3> QED  BY <3>1
  <2> QED  BY <1>7, <2>1, <2>2
<1> HIDE DEF up
<1>8. \A i \in 0..(n-1)-1 : q[i] \in (E \ {r[at]}) \cup Reactivated
  BY <1>3, <1>5 DEF Exact
<1>9. ASSUME NEW u \in E \ {r[at]} PROVE \E i \in 0..(n-1)-1 : q[i] = u
  <2>1. PICK k \in 0..n-1 : r[k] = u
    BY <1>9 DEF Exact
  <2>2. PICK i \in 0..(n-1)-1 : up(i) = k
    BY <1>7, <1>9, <2>1
  <2> QED  BY <1>3, <2>1, <2>2
<1>10. \A i, j \in 0..(n-1)-1 : q[i] = q[j] /\ q[i] \notin Reactivated => i = j
  BY <1>3, <1>5, <1>6 DEF Exact
<1>11. \A i, j \in 0..(n-1)-1 : i < j /\ q[j] \in Anchored => q[i] \in Anchored
  BY <1>3, <1>5, <1>6 DEF Exact
<1> QED  BY <1>1, <1>2, <1>4, <1>8, <1>9, <1>10, <1>11 DEF Exact, q

-----------------------------------------------------------------------------
(* The steps that change the registry, one lemma each.                     *)
LEMMA Activation ==
    ASSUME RInv, NEW t \in Toolbars, Activate(t)
    PROVE  RInv'
<1>1. /\ c0 = "idle" /\ Count = toolbar_count /\ Members = Active
      /\ toolbar_count \in Nat /\ toolbar_count <= MaxCount
  BY DEF Activate, RInv, RegistryInv, Count, Members
<1>2. t \in Active => t \in Reactivated
  BY DEF Activate, Active
<1>3. CASE Full
  <2>1. /\ enabled' = [enabled EXCEPT ![t] = FALSE]
        /\ UNCHANGED <<toolbar_registry, toolbar_count, c0, op, arg>>
    BY <1>3 DEF Activate, core0
  <2>2. enabled' \in [Toolbars -> BOOLEAN] /\ Active' = Active \ {t}
    BY <2>1 DEF Active, RInv, RegistryInv
  <2>3. Count' = toolbar_count /\ Members' = Active \ {t}
    BY <1>1, <2>1, <2>2 DEF Count, Members
  <2>4. Exact(toolbar_registry, toolbar_count, Active \ {t})
    BY <1>1, <1>2 DEF RInv, RegistryInv, Exact
  <2>5. RegistryInv'
    BY <1>1, <2>1, <2>2, <2>3, <2>4 DEF RInv, RegistryInv
  <2> QED  BY <1>1, <2>1, <2>5 DEF RInv, CallInv
<1>4. CASE ~Full
  <2>1. /\ enabled' = [enabled EXCEPT ![t] = TRUE] /\ toolbar_registry' = Inserted(t)
        /\ c0' = "count" /\ op' = "activate" /\ toolbar_count' = toolbar_count
    BY <1>4 DEF Activate
  <2>2. toolbar_count < MaxCount
    BY <1>1, <1>4, Sizes DEF Full
  <2>3. /\ toolbar_registry \in Registries /\ Exact(toolbar_registry, toolbar_count, Active)
        /\ \A i \in Slots : i >= toolbar_count => toolbar_registry[i] = NULL
        /\ Active \in SUBSET Toolbars
    BY <1>1 DEF RInv, RegistryInv, Active
  <2>4. /\ toolbar_registry' \in Registries
        /\ Exact(toolbar_registry', toolbar_count + 1, Active \cup {t})
        /\ \A i \in Slots : i > toolbar_count => toolbar_registry'[i] = toolbar_registry[i]
    <3>1. CASE t \in Anchored
      <4>1. toolbar_registry' = AtTheBottomOf(toolbar_registry, toolbar_count, t)
        BY <2>1, <3>1 DEF Inserted, AtTheBottomOf
      <4> QED  BY <1>1, <1>2, <2>2, <2>3, <3>1, <4>1, AtTheBottomIsExact
    <3>2. CASE t \notin Anchored
      <4>1. toolbar_registry' = OnTopOf(toolbar_registry, toolbar_count, t)
        BY <2>1, <3>2 DEF Inserted, OnTopOf
      <4> QED  BY <1>1, <1>2, <2>2, <2>3, <3>2, <4>1, OnTopIsExact
    <3> QED  BY <3>1, <3>2
  <2>5. enabled' \in [Toolbars -> BOOLEAN] /\ Active' = Active \cup {t}
    BY <2>1 DEF Active, RInv, RegistryInv
  <2>6. Count' = toolbar_count + 1 /\ Members' = Active \cup {t}
    BY <2>1, <2>5 DEF Count, Members
  <2>7. ASSUME NEW i \in Slots, i >= toolbar_count + 1 PROVE toolbar_registry'[i] = NULL
    BY <1>1, <2>3, <2>4, <2>7 DEF Slots
  <2>8. RegistryInv'
    BY <1>1, <2>1, <2>2, <2>4, <2>5, <2>6, <2>7, Sizes DEF RegistryInv
  <2> QED  BY <2>1, <2>8 DEF RInv, CallInv
<1> QED  BY <1>3, <1>4

LEMMA Unregistration ==
    ASSUME RInv, Unregister
    PROVE  RInv'
<1>1. /\ c0 = "shift" /\ Count = toolbar_count /\ Members = Active /\ arg \in Active
      /\ toolbar_count \in Nat /\ toolbar_count <= MaxCount
      /\ toolbar_registry \in Registries /\ Exact(toolbar_registry, toolbar_count, Active)
      /\ UNCHANGED <<toolbar_count, enabled, op, arg>>
  BY DEF Unregister, RInv, RegistryInv, CallInv, Count, Members
<1>2. PICK k \in 0..toolbar_count-1 : toolbar_registry[k] = arg
  BY <1>1 DEF Exact
<1> DEFINE P(i) == toolbar_registry[i] = arg /\ \A j \in 0..i-1 : toolbar_registry[j] # arg
           at == CHOOSE i \in 0..toolbar_count-1 : P(i)
<1>3. \E i \in 0..toolbar_count-1 : P(i)
  <2> DEFINE S == {i \in 0..toolbar_count-1 : toolbar_registry[i] = arg}
  <2>1. S \in SUBSET Nat /\ S # {}
    BY <1>1, <1>2
  <2>2. PICK m \in S : \A i \in S : m <= i
    BY <2>1, Smallest
  <2>3. ASSUME NEW j \in 0..m-1, toolbar_registry[j] = arg PROVE FALSE
    <3>1. j \in S /\ j < m
      BY <1>1, <2>3
    <3> QED  BY <2>2, <3>1
  <2> QED  BY <2>3
<1>4. at \in 0..toolbar_count-1 /\ toolbar_registry[at] = arg
  <2> HIDE DEF P
  <2>1. at \in 0..toolbar_count-1 /\ P(at)
    BY <1>3
  <2> QED  BY <2>1 DEF P
<1>5. arg \in Registered
  BY <1>2 DEF Registered
<1>6. toolbar_registry' = Without(arg) /\ c0' = "drop"
  BY <1>5 DEF Unregister
<1>7. Without(arg) = Shifted(toolbar_registry, toolbar_count, at)
  BY DEF Without, Shifted
<1> HIDE DEF at
<1>8. Active \in SUBSET Toolbars
  BY DEF Active
<1>9. /\ toolbar_registry' \in Registries
      /\ Exact(toolbar_registry', toolbar_count - 1, Active \ {arg}) /\ 0 < toolbar_count
      /\ \A i \in Slots : i >= toolbar_count => toolbar_registry'[i] = toolbar_registry[i]
  BY <1>1, <1>4, <1>6, <1>7, <1>8, ShiftedIsExact
<1>10. Count' = toolbar_count - 1 /\ Members' = Active \ {arg}
  BY <1>1, <1>6 DEF Count, Members, Active
<1>11. \A i \in Slots : i >= toolbar_count => toolbar_registry'[i] = NULL
  BY <1>1, <1>9 DEF RInv, RegistryInv
<1>12. RegistryInv'
  BY <1>1, <1>9, <1>10, <1>11, Sizes DEF RInv, RegistryInv
<1> QED  BY <1>1, <1>6, <1>12 DEF RInv, CallInv, Active

LEMMA UnregistrationCount ==
    ASSUME RInv, UnregisterCount
    PROVE  RInv'
<1> DEFINE n == toolbar_count
<1>1. /\ c0 = "drop" /\ c0' = "disable" /\ UNCHANGED <<enabled, arg>>
      /\ toolbar_registry' = [toolbar_registry EXCEPT ![n - 1] = NULL] /\ toolbar_count' = n - 1
  BY DEF UnregisterCount, OneLess
<1>2. /\ n \in Nat /\ n - 1 \in 0..MaxCount /\ toolbar_registry \in Registries
      /\ Exact(toolbar_registry, n - 1, Members) /\ arg \in Toolbars
      /\ \A i \in Slots : i >= n => toolbar_registry[i] = NULL
  <2>1. Count = n - 1
    BY <1>1 DEF Count
  <2>2. n \in Nat
    BY DEF RInv, RegistryInv
  <2> HIDE DEF n
  <2>3. \A i \in Slots : i >= n => i >= n - 1
    BY <2>2, Sizes DEF Slots
  <2> QED  BY <1>1, <2>1, <2>2, <2>3 DEF RInv, RegistryInv, CallInv, n
<1> HIDE DEF n
<1>3. toolbar_registry' \in Registries
  BY <1>1, <1>2 DEF Registries
<1>4. \A i \in 0..(n-1)-1 : i \in Slots /\ toolbar_registry'[i] = toolbar_registry[i]
  BY <1>1, <1>2, Sizes DEF Registries, Slots
<1>5. Exact(toolbar_registry', n - 1, Members)
  BY <1>2, <1>4 DEF Exact
<1>6. \A i \in Slots : i >= n - 1 => toolbar_registry'[i] = NULL
  BY <1>1, <1>2, Sizes DEF Registries, Slots
<1>7. Count' = n - 1 /\ Members' = Members
  BY <1>1 DEF Count, Members, Active
<1>8. RegistryInv'
  BY <1>1, <1>2, <1>3, <1>5, <1>6, <1>7 DEF RInv, RegistryInv
<1> QED  BY <1>1, <1>2, <1>8 DEF RInv, CallInv

LEMMA Popping ==
    ASSUME RInv, Pop
    PROVE  RInv'
<1> DEFINE n == toolbar_count  t == toolbar_registry[n - 1]
<1>1. /\ c0 = "pop" /\ n \in Nat /\ n <= MaxCount /\ toolbar_registry \in Registries
      /\ Exact(toolbar_registry, n, Active) /\ UNCHANGED <<op, arg>>
      /\ \A i \in Slots : i >= n => toolbar_registry[i] = NULL
      /\ Count = n /\ Members = Active
  BY DEF Pop, RInv, RegistryInv, Count, Members
<1>2. CASE n = 0
  BY <1>1, <1>2 DEF Pop, registry, RInv, RegistryInv, CallInv, Count, Members, Active
<1>3. CASE n # 0
  <2>1. /\ enabled' = [enabled EXCEPT ![t] = FALSE]
        /\ toolbar_registry' = [toolbar_registry EXCEPT ![n - 1] = NULL]
        /\ toolbar_count' = n - 1 /\ c0' = c0
    BY <1>3 DEF Pop, OneLess
  <2>2. Active \in SUBSET Toolbars
    BY DEF Active
  <2>3. /\ toolbar_registry' \in Registries /\ Exact(toolbar_registry', n - 1, Active \ {t})
        /\ t \in Toolbars /\ toolbar_registry'[n-1] = NULL
        /\ \A i \in Slots : i # n - 1 => toolbar_registry'[i] = toolbar_registry[i]
    <3> HIDE DEF n
    <3>1. 0 < n
      BY <1>1, <1>3
    <3>2. toolbar_registry' = Popped(toolbar_registry, n)
      BY <2>1 DEF Popped
    <3> QED  BY <1>1, <2>2, <3>1, <3>2, PoppedIsExact
  <2>4. enabled' \in [Toolbars -> BOOLEAN] /\ Active' = Active \ {t}
    BY <2>1, <2>3 DEF Active, RInv, RegistryInv
  <2> HIDE DEF n, t
  <2>5. Count' = n - 1 /\ Members' = Active \ {t}
    BY <1>1, <2>1, <2>4 DEF Count, Members
  <2>6. \A i \in Slots : i >= n - 1 => toolbar_registry'[i] = NULL
    BY <1>1, <2>3 DEF Slots
  <2>7. n - 1 \in Nat /\ n - 1 \in 0..MaxCount
    BY <1>1, <1>3, Sizes
  <2>8. RegistryInv'
    BY <2>1, <2>3, <2>4, <2>5, <2>6, <2>7 DEF RegistryInv
  <2> QED  BY <1>1, <2>1, <2>8 DEF RInv, CallInv
<1> QED  BY <1>2, <1>3

(* Every other step leaves slots, count and members as they were.          *)
LEMMA RegistrySteps ==
    ASSUME RInv, [Next]_<<load, vars>>
    PROVE  RInv'
<1>1. ASSUME UNCHANGED <<registry, arg>>, Count' = Count, Members' = Members, CallInv'
      PROVE  RInv'
  BY <1>1 DEF RInv, RegistryInv, registry
<1>2. ASSUME UNCHANGED <<registry, c0, op, arg>> PROVE RInv'
  BY <1>1, <1>2 DEF registry, Count, Members, Active, RInv, CallInv
<1>3. CASE FrameSent \/ Switch \/ UNCHANGED <<load, vars>>
  BY <1>2, <1>3 DEF FrameSent, Switch, vars, core0, registry
<1>4. CASE Core1
  <2>1. UNCHANGED <<registry, core0>>
    BY <1>4 DEF Core1, ServiceIdle, ServiceDrained, ServiceRender, ScanTest, ScanFetch,
                RenderSkip, Render, TickTest, TickBegin, Message
  <2> QED  BY <1>2, <2>1 DEF core0
<1>5. ASSUME NEW t \in Toolbars, Activate(t) PROVE RInv'
  BY <1>5, Activation
<1>6. ASSUME NEW o, NEW t, Begin(o, t) PROVE RInv'
  BY <1>6 DEF Begin, registry, RInv, RegistryInv, CallInv, Count, Members, Active
<1>7. CASE ActivateCount
  <2>1. /\ c0 = "count" /\ c0' = "prepare" /\ toolbar_count' = toolbar_count + 1
        /\ UNCHANGED <<toolbar_registry, enabled, op, arg>>
    BY <1>7 DEF ActivateCount
  <2>2. Count = toolbar_count + 1 /\ Count' = Count /\ Members' = Members
    BY <2>1 DEF Count, Members, Active
  <2>3. Count' \in 0..MaxCount /\ toolbar_count' \in Nat
    BY <2>1, <2>2 DEF RInv, RegistryInv
  <2>4. \A i \in Slots : i >= toolbar_count' => i >= Count /\ i >= toolbar_count
    BY <2>1, <2>2, Sizes DEF Slots, RInv, RegistryInv
  <2> QED  BY <2>1, <2>2, <2>3, <2>4 DEF RInv, RegistryInv, CallInv
<1>8. CASE Prepare
  BY <1>8 DEF Prepare, registry, RInv, RegistryInv, CallInv, Count, Members, Active
<1>9. CASE WaitDone \/ WaitTimesOut
  BY <1>9 DEF WaitDone, WaitTimesOut, Inside, registry,
              RInv, RegistryInv, CallInv, Count, Members, Active
<1>10. CASE Unregister
  BY <1>10, Unregistration
<1>11. CASE UnregisterCount
  BY <1>11, UnregistrationCount
<1>12. CASE Disable
  <2>1. /\ c0 = "disable" /\ c0' = "draw" /\ enabled' = [enabled EXCEPT ![arg] = FALSE]
        /\ UNCHANGED <<toolbar_registry, toolbar_count, op, arg>>
    BY <1>12 DEF Disable
  <2>2. Count' = Count /\ Members' = Members
    BY <2>1 DEF Count, Members, Active, RInv, RegistryInv, CallInv
  <2>3. enabled' \in [Toolbars -> BOOLEAN]
    BY <2>1 DEF RInv, RegistryInv
  <2> QED  BY <2>1, <2>2, <2>3 DEF RInv, RegistryInv, CallInv
<1>13. CASE Pop
  BY <1>13, Popping
<1>14. CASE Draw \/ Release \/ Kick \/ KickDone
  BY <1>14 DEF Draw, Release, Kick, KickDone, registry,
               RInv, RegistryInv, CallInv, Count, Members, Active
<1> QED
  BY <1>3, <1>4, <1>5, <1>6, <1>7, <1>8, <1>9, <1>10, <1>11, <1>12, <1>13, <1>14
  DEF Next, Starts, Continues

LEMMA RegistryInvariant == Spec => []RInv
<1>1. Init => RInv
  <2> SUFFICES ASSUME Init PROVE RInv
    OBVIOUS
  <2>1. /\ toolbar_registry = [i \in Slots |-> NULL] /\ toolbar_count = 0 /\ c0 = "idle"
        /\ enabled = [t \in Toolbars |-> FALSE]
    BY DEF Init, Slots
  <2>2. Count = 0 /\ Members = {}
    BY <2>1 DEF Count, Members, Active
  <2>3. Exact(toolbar_registry, 0, {})
    BY DEF Exact
  <2> QED  BY <2>1, <2>2, <2>3, Sizes DEF RInv, RegistryInv, CallInv, Registries
<1>2. RInv /\ [Next]_<<load, vars>> => RInv'
  BY RegistrySteps
<1> QED  BY <1>1, <1>2, PTL DEF Spec

(* Whatever the size of the registry, whichever toolbars their owners      *)
(* activate twice, and whatever core 1 does: between two calls of core 0   *)
(* every active toolbar is registered, without gaps, the anchored ones     *)
(* first, and a toolbar that is not activated twice is there only while it *)
(* is active, and once.                                                    *)
THEOREM RegistryIsExact == Spec => []RegistryOK
<1>1. RInv => RegistryOK
  <2> SUFFICES ASSUME RInv, c0 \in {"idle", "kick", "await"}
               PROVE  /\ Registered \subseteq Toolbars
                      /\ \A i \in toolbar_count..MaxCount-1 : toolbar_registry[i] = NULL
                      /\ Active \subseteq Registered
                      /\ \A i, j \in 0..toolbar_count-1 :
                            toolbar_registry[j] \in Anchored /\ i < j
                              => toolbar_registry[i] \in Anchored
                      /\ \A i \in 0..toolbar_count-1 : toolbar_registry[i] \notin Reactivated =>
                            /\ enabled[toolbar_registry[i]]
                            /\ \A j \in 0..toolbar_count-1 :
                                  toolbar_registry[j] = toolbar_registry[i] => j = i
    BY DEF RegistryOK, Active
  <2>1. Count = toolbar_count /\ Members = Active
    BY DEF Count, Members
  <2>2. /\ toolbar_count \in Nat /\ Exact(toolbar_registry, toolbar_count, Active)
        /\ \A i \in Slots : i >= toolbar_count => toolbar_registry[i] = NULL
    BY <2>1 DEF RInv, RegistryInv
  <2>3. \A i \in 0..toolbar_count-1 : toolbar_registry[i] \in Active \cup Reactivated
    BY <2>2 DEF Exact
  <2>4. Registered \subseteq Toolbars
    BY <2>3, Sizes DEF Registered, Active
  <2>5. Active \subseteq Registered
    BY <2>2 DEF Exact, Registered
  <2>6. \A i \in toolbar_count..MaxCount-1 : i \in Slots /\ i >= toolbar_count
    BY <2>2, Sizes DEF Slots
  <2>7. \A i \in 0..toolbar_count-1 :
          toolbar_registry[i] \notin Reactivated => enabled[toolbar_registry[i]]
    BY <2>3 DEF Active
  <2> QED  BY <2>2, <2>4, <2>5, <2>6, <2>7 DEF Exact
<1> QED  BY <1>1, RegistryInvariant, PTL

=============================================================================
