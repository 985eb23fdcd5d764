--------------------------- MODULE Telemetry_proofs ---------------------------
(***************************************************************************)
(* Proofs about the signals of load, for any instances and series, any     *)
(* settings, and any deployments between a read and the judgement on it.   *)
(***************************************************************************)
EXTENDS Telemetry, Listing_proofs

\* The CPU part of record r is that of one machine, held against threshold t.
OfOneMachine(r, t) ==
    /\ r.above = AtOrAbove(r.cpu, t)
    /\ r.cpu # <<>> =>
         \E m \in Measured("cpu") : NameOf[m] = r.instance /\ r.cpu = load[m].cpu

\* The list in the session is what was measured, with the threshold in force
\* when it was.
Measurements ==
    \A i \in inventory :
      /\ i.cpu_threshold = basis.cpu_threshold
      /\ \A k \in DOMAIN i.instances : OfOneMachine(i.instances[k], basis.cpu_threshold)

\* The series of a name is that of a machine that has the name.
LEMMA RecordIsOfOneMachine ==
    ASSUME NEW cpu \in _aligned_series("cpu"), NEW gpu, NEW n, NEW t
    PROVE  OfOneMachine(Record(n, cpu, gpu, t), t)
<1> DEFINE r == Record(n, cpu, gpu, t)
<1>1. r.instance = n /\ r.cpu = Samples(cpu, n, "cpu") /\ r.above = AtOrAbove(r.cpu, t)
  BY DEF Record
<1>2. ASSUME r.cpu # <<>>
      PROVE  \E m \in Measured("cpu") : NameOf[m] = n /\ r.cpu = load[m].cpu
  <2>1. n \in DOMAIN cpu /\ r.cpu = load[cpu[n]].cpu
    BY <1>1, <1>2 DEF Samples
  <2>2. cpu[n] \in Measured("cpu") /\ NameOf[cpu[n]] = n
    BY <2>1 DEF _aligned_series
  <2> QED
    BY <2>1, <2>2
<1> QED
  BY <1>1, <1>2 DEF OfOneMachine

-----------------------------------------------------------------------------
(***************************************************************************)
(* The settings in force.                                                  *)
(***************************************************************************)

\* An environment sets the cap to a number or not at all.
HasCap(e) == "max_instances" \in DOMAIN e => e["max_instances"] \in Nat

Settled ==
    /\ shell \in Shells
    /\ HasCap(process.environment)
    /\ DOMAIN process.captured = DOMAIN Default
    /\ load \in Loads

\* Whatever was exported or deployed, the cap in force is a number and every
\* setting has a value.
LEMMA SettingsHold ==
    ASSUME Settled
    PROVE  Current.max_instances \in Nat /\ DOMAIN Current = DOMAIN Default
                                        /\ DOMAIN Kept = DOMAIN Default
<1>1. Current["max_instances"] = IF "max_instances" \in DOMAIN process.environment
                                 THEN process.environment["max_instances"]
                                 ELSE Default["max_instances"]
  BY CapAssumption DEF Current, get_settings
<1>2. Default["max_instances"] \in Nat
  BY CapAssumption
<1> QED
  BY <1>1, <1>2 DEF Settled, HasCap, Current, get_settings, Kept

\* Every step keeps it.
LEMMA AlwaysSettled == Spec => []Settled
<1>1. \A e \in Shells : HasCap(e)
  BY CapAssumption DEF HasCap
<1>2. \A e : DOMAIN get_settings(e) = DOMAIN Default
  BY DEF get_settings
<1>3. Init => Settled
  BY <1>1, <1>2 DEF Init, Settled
<1>4. Settled /\ [Next]_vars => Settled'
  <2> SUFFICES ASSUME Settled, [Next]_vars PROVE Settled'
    OBVIOUS
  <2>1. CASE Collect
    BY <2>1 DEF Collect, deployment, Settled
  <2>2. CASE Judge
    BY <2>2 DEF Judge, deployment, Settled
  <2>3. CASE Redeploy
    <3>1. PICK args \in Arguments : Deploy(args) /\ load' = load
      BY <2>3 DEF Redeploy
    <3>2. "max_instances" \notin DOMAIN env_vars(args)
      BY DEF env_vars, Deployable
    <3>3. HasCap(process'.environment) /\ DOMAIN process'.captured = DOMAIN Default
      BY <1>2, <3>1, <3>2 DEF Deploy, HasCap
    <3> QED
      BY <3>1, <3>3 DEF Deploy, Settled
  <2>4. CASE Rerun
    <3> DEFINE env == [k \in DOMAIN shell \cup {"default_project_id"} |->
                         IF k \in DOMAIN shell THEN shell[k] ELSE "demo"]
    <3>1. process' = [remote |-> FALSE, environment |-> env, captured |-> get_settings(env)]
      BY <2>4 DEF Rerun, RunLocally
    <3>2. HasCap(env)
      BY <1>1 DEF HasCap, Settled
    <3> HIDE DEF env
    <3>3. HasCap(process'.environment) /\ DOMAIN process'.captured = DOMAIN Default
      BY <1>2, <3>1, <3>2
    <3> QED
      BY <2>4, <3>3 DEF Rerun, RunLocally, Settled
  <2>5. CASE Reexport
    BY <2>5 DEF Reexport, Export, Settled
  <2>6. CASE UNCHANGED vars
    BY <2>6 DEF vars, deployment, Settled
  <2> QED
    BY <2>1, <2>2, <2>3, <2>4, <2>5, <2>6 DEF Next
<1> QED
  BY <1>3, <1>4, PTL DEF Spec

-----------------------------------------------------------------------------
(***************************************************************************)
(* The order of the names and what the cap leaves of them.                 *)
(***************************************************************************)
Alphabet == Range(NameOrder)

Before == {p \in Alphabet \X Alphabet :
             \E a, b \in 1..Len(NameOrder) :
               a < b /\ NameOrder[a] = p[1] /\ NameOrder[b] = p[2]}

\* The alphabetical order lists the names.
LEMMA NamesAreListed == IsFiniteSet(Alphabet) /\ Lists(NameOrder, Alphabet, Before)
<1>1. /\ NameOrder \in Seq(Alphabet) /\ Len(NameOrder) \in Nat
      /\ DOMAIN NameOrder = 1..Len(NameOrder)
      /\ \A a \in 1..Len(NameOrder) : NameOrder[a] \in Alphabet
  BY NamesAssumption DEF Alphabet
<1>2. \A x \in Alphabet : \E a \in 1..Len(NameOrder) : NameOrder[a] = x
  BY <1>1 DEF Alphabet, Range
<1>3. \A a, b \in 1..Len(NameOrder) : NameOrder[a] = NameOrder[b] => a = b
  BY NamesAssumption
<1>4. PICK f : f = [a \in 1..Len(NameOrder) |-> NameOrder[a]]
  OBVIOUS
<1>5. f \in Bijection(1..Len(NameOrder), Alphabet)
  BY <1>1, <1>2, <1>3, <1>4 DEF Bijection, Injection, Surjection, IsInjective
<1>6. /\ IsFiniteSet(1..Len(NameOrder))
      /\ Cardinality(1..Len(NameOrder)) = Len(NameOrder)
  <2>1. PICK n \in Nat : n = Len(NameOrder)
    BY <1>1
  <2>2. IsFiniteSet(1..n) /\ Cardinality(1..n) = IF 1 > n THEN 0 ELSE n - 1 + 1
    BY FS_Interval
  <2> QED
    BY <2>1, <2>2
<1>7. IsFiniteSet(Alphabet) /\ Cardinality(Alphabet) = Len(NameOrder)
  BY <1>5, <1>6, FS_Bijection DEF ExistsBijection
<1>8. \A a, b \in 1..Len(NameOrder) : a < b => <<NameOrder[b], NameOrder[a]>> \notin Before
  BY <1>1, <1>3 DEF Before
<1> QED
  BY <1>1, <1>2, <1>3, <1>7, <1>8 DEF Lists

\* Names are sorted by it.
LEMMA SortedLists ==
    ASSUME NEW N, N \subseteq Alphabet
    PROVE  Lists(Sorted(N), N, Before)
<1>1. Lists(Those(NameOrder, N), Alphabet \cap N, Before)
  BY NamesAreListed, ThoseLists
<1>2. Alphabet \cap N = N
  OBVIOUS
<1> QED
  BY <1>1, <1>2 DEF Sorted

\* The names that were read are those of the machines that were measured.
LEMMA ReadNames ==
    ASSUME NEW cpu \in _aligned_series("cpu"), NEW gpu \in _aligned_series("gpu")
    PROVE  NamesOfEither(cpu, gpu) = AllNames /\ AllNames \subseteq Alphabet
<1>1. /\ DOMAIN cpu = {NameOf[m] : m \in Measured("cpu")}
      /\ DOMAIN gpu = {NameOf[m] : m \in Measured("gpu")}
  BY DEF _aligned_series
<1>2. \A m : m \in Measured("cpu") \cup Measured("gpu") => m \in Machines
  BY DEF Measured
<1> QED
  BY <1>1, <1>2, NamesAssumption DEF NamesOfEither, AllNames, Alphabet

\* A name within the cap is among the first the cap leaves.
LEMMA WithinTheFirst ==
    ASSUME AllNames \subseteq Alphabet, NEW cap \in Nat,
           NEW k \in 1..Len(Sorted(AllNames)), WithinCap(Sorted(AllNames)[k], cap)
    PROVE  k <= cap
<1>1. PICK s : s = Sorted(AllNames)
  OBVIOUS
<1>2. Lists(s, AllNames, Before)
  BY <1>1, SortedLists
<1>3. s \in Seq(AllNames) /\ Len(s) \in Nat /\ k \in 1..Len(s)
  BY <1>1, <1>2 DEF Lists
<1> DEFINE W == {x \in AllNames : \E a, b \in DOMAIN NameOrder :
                   NameOrder[a] = x /\ NameOrder[b] = s[k] /\ a <= b}
           f == [j \in 1..k |-> s[j]]
<1>4. IsFiniteSet(W)
  BY NamesAreListed, FS_Subset
<1>5. ASSUME NEW j \in 1..k
      PROVE  s[j] \in W
  <2>1. j \in 1..Len(s) /\ s[j] \in AllNames /\ s[k] \in AllNames
    BY <1>3
  <2>2. PICK a \in 1..Len(NameOrder) : NameOrder[a] = s[j]
    BY <2>1, NamesAreListed DEF Lists
  <2>3. PICK b \in 1..Len(NameOrder) : NameOrder[b] = s[k]
    BY <2>1, NamesAreListed DEF Lists
  <2>4. a <= b
    <3>1. CASE j = k
      BY <2>2, <2>3, <3>1, NamesAssumption
    <3>2. CASE j # k
      <4>1. j < k
        BY <1>3, <3>2
      <4>2. <<s[k], s[j]>> \notin Before
        BY <1>2, <1>3, <2>1, <4>1 DEF Lists
      <4>3. ~ (b < a)
        BY <2>1, <2>2, <2>3, <4>2 DEF Before
      <4> QED
        BY <4>3
    <3> QED
      BY <3>1, <3>2
  <2>5. a \in DOMAIN NameOrder /\ b \in DOMAIN NameOrder
    BY NamesAssumption
  <2> QED
    BY <2>1, <2>2, <2>3, <2>4, <2>5
<1>6. f \in Injection(1..k, W)
  <2>1. \A i, j \in 1..k : s[i] = s[j] => i = j
    BY <1>2, <1>3 DEF Lists
  <2>2. f \in [1..k -> W]
    BY <1>5
  <2> QED
    BY <2>1, <2>2 DEF Injection, IsInjective
<1>7. Cardinality(1..k) <= Cardinality(W)
  <2> HIDE DEF f, W
  <2> QED
    BY <1>4, <1>6, FS_Injection
<1>8. Cardinality(1..k) = k /\ k \in Nat
  BY <1>3, FS_Interval
<1>9. Cardinality(W) <= cap /\ Cardinality(W) \in Nat
  BY <1>1, <1>4, FS_CardinalityType DEF WithinCap
<1> QED
  BY <1>7, <1>8, <1>9

\* The records, cut: one for each of the first names.
LEMMA CutRecords ==
    ASSUME Settled, NEW cpu \in _aligned_series("cpu"), NEW gpu \in _aligned_series("gpu"), NEW t,
           NEW list, list = Cut(_merge_series(cpu, gpu, t))
    PROVE  /\ Len(list) \in Nat /\ DOMAIN list = 1..Len(list)
           /\ Len(list) <= Current.max_instances
           /\ \A k \in 1..Len(list) : /\ Sorted(AllNames)[k] \in AllNames
                                      /\ list[k] = Record(Sorted(AllNames)[k], cpu, gpu, t)
           /\ \A k \in 1..Len(Sorted(AllNames)) :
                k <= Current.max_instances => k \in 1..Len(list)
<1>1. PICK s : s = Sorted(AllNames)
  OBVIOUS
<1>2. Lists(s, AllNames, Before)
  BY <1>1, SortedLists, ReadNames
<1>3. s \in Seq(AllNames) /\ Len(s) \in Nat
  BY <1>2 DEF Lists
<1>4. PICK record : record = [k \in 1..Len(s) |-> Record(s[k], cpu, gpu, t)]
  OBVIOUS
<1>5. _merge_series(cpu, gpu, t) = record
  <2>1. Sorted(NamesOfEither(cpu, gpu)) = s /\ DOMAIN s = 1..Len(s)
    BY <1>1, <1>3, ReadNames
  <2> QED
    BY <1>4, <2>1 DEF _merge_series
<1>6. PICK V : V = {record[k] : k \in 1..Len(s)}
  OBVIOUS
<1>7. record \in Seq(V) /\ Len(record) = Len(s)
  BY <1>3, <1>4, <1>6
<1>8. PICK n \in Nat : n = Current.max_instances
  BY SettingsHold
<1>9. list = Upto(record, n)
  BY <1>5, <1>8 DEF Cut
<1>10. /\ list \in Seq(V)
       /\ Len(list) = IF Len(s) < n THEN Len(s) ELSE n
       /\ \A k \in 1..Len(list) : list[k] = record[k]
  BY <1>3, <1>7, <1>9 DEF Upto
<1>11. /\ Len(list) \in Nat /\ DOMAIN list = 1..Len(list)
       /\ Len(list) <= n
       /\ \A k \in 1..Len(s) : k <= n => k \in 1..Len(list)
       /\ \A k \in 1..Len(list) : k \in 1..Len(s)
  BY <1>3, <1>10
<1> QED
  BY <1>1, <1>3, <1>4, <1>8, <1>10, <1>11

-----------------------------------------------------------------------------
(***************************************************************************)
(* What was read.                                                          *)
(***************************************************************************)

\* What a read stores is what was measured.
LEMMA CollectMeasures ==
    ASSUME Settled, Collect
    PROVE  Measurements'
<1>1. PICK t : t = Current.cpu_threshold
  OBVIOUS
<1>2. PICK cpu \in _aligned_series("cpu"), gpu \in _aligned_series("gpu") :
        inventory' = {[cpu_threshold |-> t, instances |-> Cut(_merge_series(cpu, gpu, t))]}
  BY <1>1 DEF Collect
<1>3. PICK list : list = Cut(_merge_series(cpu, gpu, t))
  OBVIOUS
<1>4. basis'.cpu_threshold = t /\ load' = load
  BY <1>1 DEF Collect
<1>5. ASSUME NEW k \in DOMAIN list
      PROVE  OfOneMachine(list[k], t)
  <2>1. DOMAIN list = 1..Len(list)
    BY <1>3, CutRecords
  <2>2. list[k] = Record(Sorted(AllNames)[k], cpu, gpu, t)
    BY <1>3, <2>1, CutRecords
  <2> QED
    BY <2>2, RecordIsOfOneMachine
<1>6. \A r : OfOneMachine(r, t)' = OfOneMachine(r, t)
  BY <1>4 DEF OfOneMachine, Measured
<1>7. inventory' = {[cpu_threshold |-> t, instances |-> list]}
  BY <1>2, <1>3
<1>8. ASSUME NEW i \in inventory'
      PROVE  /\ i.cpu_threshold = basis'.cpu_threshold
             /\ \A k \in DOMAIN i.instances : OfOneMachine(i.instances[k], basis.cpu_threshold)'
  <2>1. i.cpu_threshold = t /\ i.instances = list
    BY <1>7, <1>8
  <2>2. \A k \in DOMAIN list : OfOneMachine(list[k], t)'
    BY <1>5, <1>6
  <2> QED
    BY <1>4, <2>1, <2>2
<1> QED
  BY <1>8 DEF Measurements

\* A CPU signal is about a record that reaches the threshold recorded with it.
LEMMA SignalHasRecord ==
    ASSUME NEW i, NEW s \in _utilization_signals(i), s.rule = "CJ-MON-SUSTAINED-CPU"
    PROVE  \E k \in DOMAIN i.instances :
             /\ s.instance = i.instances[k].instance
             /\ MeanReaches(i.instances[k].cpu, i.cpu_threshold)
             /\ i.instances[k].above >= Kept.cpu_sustained
BY DEF _utilization_signals, Threshold, Range

\* What the engine says of what was measured is so.
LEMMA JudgeIsRight ==
    ASSUME Measurements, Judge
    PROVE  PinWasMeasured'
<1>1. PICK i \in inventory : signals' = _utilization_signals(i)
  BY DEF Judge
<1>2. judged' = {[kept |-> Kept, read |-> basis]} /\ load' = load
  BY DEF Judge
<1>3. ASSUME NEW s \in signals', s.rule = "CJ-MON-SUSTAINED-CPU"
      PROVE  \E m \in Measured("cpu") : NameOf[m] = s.instance /\ Pinned(m, basis, Kept)
  <2>1. PICK k \in DOMAIN i.instances :
          /\ s.instance = i.instances[k].instance
          /\ MeanReaches(i.instances[k].cpu, i.cpu_threshold)
          /\ i.instances[k].above >= Kept.cpu_sustained
    BY <1>1, <1>3, SignalHasRecord
  <2>2. OfOneMachine(i.instances[k], basis.cpu_threshold) /\ i.cpu_threshold = basis.cpu_threshold
    BY DEF Measurements
  <2>3. i.instances[k].cpu # <<>>
    BY <2>1 DEF MeanReaches
  <2>4. PICK m \in Measured("cpu") :
          NameOf[m] = s.instance /\ i.instances[k].cpu = load[m].cpu
    BY <2>1, <2>2, <2>3 DEF OfOneMachine
  <2>5. Pinned(m, basis, Kept)
    BY <2>1, <2>2, <2>4 DEF OfOneMachine, Pinned
  <2> QED
    BY <2>4, <2>5
<1>4. \A m, t, k : Pinned(m, t, k)' = Pinned(m, t, k)
  BY <1>2 DEF Pinned
<1>5. Measured("cpu")' = Measured("cpu")
  BY <1>2 DEF Measured
<1> QED
  BY <1>2, <1>3, <1>4, <1>5 DEF PinWasMeasured

\* As long as the series are what they were, so is what was said of them.
LEMMA Stays ==
    ASSUME UNCHANGED load
    PROVE  /\ UNCHANGED <<inventory, basis>> /\ Measurements => Measurements'
           /\ UNCHANGED <<signals, judged>> /\ PinWasMeasured => PinWasMeasured'
<1>1. \A r, t : OfOneMachine(r, t)' = OfOneMachine(r, t)
  BY DEF OfOneMachine, Measured
<1>2. \A m, t, k : Pinned(m, t, k)' = Pinned(m, t, k)
  BY DEF Pinned
<1>3. Measured("cpu")' = Measured("cpu")
  BY DEF Measured
<1>4. ASSUME UNCHANGED <<inventory, basis>>, Measurements
      PROVE  Measurements'
  BY <1>1, <1>4 DEF Measurements
<1>5. ASSUME UNCHANGED <<signals, judged>>, PinWasMeasured
      PROVE  PinWasMeasured'
  BY <1>2, <1>3, <1>5 DEF PinWasMeasured
<1> QED
  BY <1>4, <1>5

\* Every step keeps the list one of measurements and the signals right.
LEMMA MeasuredStep ==
    Settled /\ Measurements /\ PinWasMeasured /\ [Next]_vars => Measurements' /\ PinWasMeasured'
<1> SUFFICES ASSUME Settled, Measurements, PinWasMeasured, [Next]_vars
             PROVE  Measurements' /\ PinWasMeasured'
  OBVIOUS
<1>1. CASE Collect
  BY <1>1, CollectMeasures, Stays DEF Collect
<1>2. CASE Judge
  BY <1>2, JudgeIsRight, Stays DEF Judge
<1>3. CASE Redeploy
  BY <1>3, Stays DEF Redeploy
<1>4. CASE Rerun
  BY <1>4 DEF Rerun, Measurements, PinWasMeasured
<1>5. CASE Reexport
  BY <1>5, Stays DEF Reexport
<1>6. CASE UNCHANGED vars
  BY <1>6, Stays DEF vars
<1> QED
  BY <1>1, <1>2, <1>3, <1>4, <1>5, <1>6 DEF Next

\* analysis.py:250 and 258-260: in every reachable state a signal of sustained
\* load is about one machine that reached, in the mean and for long enough, the
\* threshold in force when it was read, whatever was deployed or exported since.
THEOREM AlwaysPinWasMeasured == Spec => []PinWasMeasured
<1>1. Init => Measurements /\ PinWasMeasured
  BY DEF Init, Measurements, PinWasMeasured
<1> QED
  BY <1>1, AlwaysSettled, MeasuredStep, PTL DEF Spec

-----------------------------------------------------------------------------
(***************************************************************************)
(* What the list holds, and that nobody is missed.                         *)
(***************************************************************************)

\* Nobody else has the name of m, and it is within the cap.
Distinguished(m, cap) ==
    /\ \A x \in Machines : NameOf[x] = NameOf[m] => x = m
    /\ WithinCap(NameOf[m], cap)

\* The list is no longer than the cap, is about machines that were measured,
\* and has each that stands out with its series.
Complete(list, cap) ==
    /\ Len(list) <= cap
    /\ DOMAIN list = 1..Len(list)
    /\ \A k \in DOMAIN list : list[k].instance \in AllNames /\ list[k].above <= Len(list[k].cpu)
    /\ \A m \in Measured("cpu") :
         Distinguished(m, cap) =>
           \E k \in DOMAIN list : list[k].instance = NameOf[m] /\ list[k].cpu = load[m].cpu

Listed == \A i \in inventory : Complete(i.instances, basis.max_instances)

Signalled ==
    /\ \A s \in signals : s.instance \in AllNames
    /\ signals # {} => judged # {}

\* No more samples reach a threshold than there are.
LEMMA SomeOfTheSamples ==
    ASSUME Settled, NEW cpu \in _aligned_series("cpu"), NEW n, NEW t
    PROVE  AtOrAbove(Samples(cpu, n, "cpu"), t) <= Len(Samples(cpu, n, "cpu"))
<1>1. PICK x : x = Samples(cpu, n, "cpu")
  OBVIOUS
<1>2. x \in Seq(Nat)
  <2>1. CASE n \in DOMAIN cpu
    <3>1. cpu[n] \in Machines /\ x = load[cpu[n]]["cpu"]
      BY <1>1, <2>1 DEF Samples, _aligned_series, Measured
    <3> QED
      BY <3>1, LoadsAssumption DEF Settled
  <2>2. CASE n \notin DOMAIN cpu
    BY <1>1, <2>2 DEF Samples
  <2> QED
    BY <2>1, <2>2
<1>3. PICK len \in Nat : len = Len(x) /\ DOMAIN x = 1..len
  BY <1>2
<1>4. IsFiniteSet(1..len) /\ Cardinality(1..len) = len
  <2>1. IsFiniteSet(1..len) /\ Cardinality(1..len) = IF 1 > len THEN 0 ELSE len - 1 + 1
    BY FS_Interval
  <2> QED
    BY <2>1
<1>5. PICK S : S = {k \in DOMAIN x : x[k] >= t}
  OBVIOUS
<1>6. S \in SUBSET (1..len)
  BY <1>3, <1>5
<1>7. Cardinality(S) <= len
  BY <1>4, <1>6, FS_Subset
<1> QED
  BY <1>1, <1>3, <1>5, <1>7 DEF AtOrAbove

\* The series of a name that only one machine has is that machine's.
LEMMA OwnSeries ==
    ASSUME NEW cpu \in _aligned_series("cpu"), NEW m \in Measured("cpu"),
           \A x \in Machines : NameOf[x] = NameOf[m] => x = m
    PROVE  Samples(cpu, NameOf[m], "cpu") = load[m].cpu
<1>1. NameOf[m] \in DOMAIN cpu
  BY DEF _aligned_series
<1>2. cpu[NameOf[m]] \in Machines /\ NameOf[cpu[NameOf[m]]] = NameOf[m]
  BY <1>1 DEF _aligned_series, Measured
<1>3. cpu[NameOf[m]] = m
  BY <1>2
<1> QED
  BY <1>1, <1>3 DEF Samples

\* A read lists everyone who stands out.
LEMMA CollectIsComplete ==
    ASSUME Settled, Collect
    PROVE  Listed'
<1>1. PICK t : t = Current.cpu_threshold
  OBVIOUS
<1>2. PICK cpu \in _aligned_series("cpu"), gpu \in _aligned_series("gpu") :
        inventory' = {[cpu_threshold |-> t, instances |-> Cut(_merge_series(cpu, gpu, t))]}
  BY <1>1 DEF Collect
<1>3. PICK list : list = Cut(_merge_series(cpu, gpu, t))
  OBVIOUS
<1>4. PICK cap \in Nat : cap = Current.max_instances
  BY SettingsHold
<1>5. PICK names : names = Sorted(AllNames)
  OBVIOUS
<1>6. /\ Len(list) \in Nat /\ DOMAIN list = 1..Len(list)
      /\ Len(list) <= cap
      /\ \A k \in 1..Len(list) : names[k] \in AllNames /\ list[k] = Record(names[k], cpu, gpu, t)
      /\ \A k \in 1..Len(names) : k <= cap => k \in 1..Len(list)
  BY <1>3, <1>4, <1>5, CutRecords
<1>7. ASSUME NEW k \in DOMAIN list
      PROVE  /\ list[k].instance = names[k] /\ list[k].instance \in AllNames
             /\ list[k].cpu = Samples(cpu, names[k], "cpu")
             /\ list[k].above <= Len(list[k].cpu)
  <2>1. /\ list[k].instance = names[k]
        /\ list[k].cpu = Samples(cpu, names[k], "cpu")
        /\ list[k].above = AtOrAbove(Samples(cpu, names[k], "cpu"), t)
    BY <1>6 DEF Record
  <2> QED
    BY <1>6, <2>1, SomeOfTheSamples
<1>8. ASSUME NEW m \in Measured("cpu"), Distinguished(m, cap)
      PROVE  \E k \in DOMAIN list : list[k].instance = NameOf[m] /\ list[k].cpu = load[m].cpu
  <2>1. NameOf[m] \in AllNames
    BY DEF AllNames
  <2>2. AllNames \subseteq Alphabet
    BY <1>2, ReadNames
  <2>3. PICK k \in 1..Len(names) : names[k] = NameOf[m]
    BY <1>5, <2>1, <2>2, SortedLists DEF Lists
  <2>4. k <= cap
    BY <1>5, <1>8, <2>2, <2>3, WithinTheFirst DEF Distinguished
  <2>5. k \in DOMAIN list
    BY <1>6, <2>4
  <2>6. list[k].instance = NameOf[m] /\ list[k].cpu = Samples(cpu, NameOf[m], "cpu")
    BY <1>7, <2>3, <2>5
  <2> QED
    BY <1>8, <2>5, <2>6, OwnSeries DEF Distinguished
<1>9. Complete(list, cap)
  BY <1>6, <1>7, <1>8 DEF Complete
<1>10. load' = load /\ basis'.max_instances = cap
  BY <1>4 DEF Collect
<1>11. Complete(list, cap)'
  BY <1>9, <1>10 DEF Complete, Distinguished, WithinCap, AllNames, Measured
<1>12. inventory' = {[cpu_threshold |-> t, instances |-> list]}
  BY <1>2, <1>3
<1> QED
  BY <1>10, <1>11, <1>12 DEF Listed

\* The engine signals every record that reaches what it recorded for long enough.
LEMMA RecordHasSignal ==
    ASSUME NEW i, NEW k \in DOMAIN i.instances, MeanReaches(i.instances[k].cpu, i.cpu_threshold),
           i.instances[k].above >= Kept.cpu_sustained
    PROVE  [rule |-> "CJ-MON-SUSTAINED-CPU", instance |-> i.instances[k].instance]
             \in _utilization_signals(i)
BY DEF _utilization_signals, Threshold, Range

\* A judgement is about machines that were measured and misses none that
\* stands out.
LEMMA JudgeIsComplete ==
    ASSUME Measurements, Listed, Judge
    PROVE  Signalled' /\ PinnedIsFound'
<1>1. PICK i \in inventory : signals' = _utilization_signals(i)
  BY DEF Judge
<1>2. judged' = {[kept |-> Kept, read |-> basis]} /\ load' = load
  BY DEF Judge
<1>3. Complete(i.instances, basis.max_instances) /\ i.cpu_threshold = basis.cpu_threshold
  BY DEF Listed, Measurements
<1>4. \A s \in signals' : s.instance \in AllNames
  BY <1>1, <1>3 DEF _utilization_signals, Range, Complete
<1>5. AllNames' = AllNames
  BY <1>2 DEF AllNames, Measured
<1>6. ASSUME NEW m \in Measured("cpu"), Pinned(m, basis, Kept),
             Distinguished(m, basis.max_instances)
      PROVE  [rule |-> "CJ-MON-SUSTAINED-CPU", instance |-> NameOf[m]] \in signals'
  <2>1. PICK k \in DOMAIN i.instances :
          i.instances[k].instance = NameOf[m] /\ i.instances[k].cpu = load[m].cpu
    BY <1>3, <1>6 DEF Complete
  <2>2. i.instances[k].above = AtOrAbove(load[m].cpu, basis.cpu_threshold)
    BY <2>1 DEF Measurements, OfOneMachine
  <2>3. /\ MeanReaches(i.instances[k].cpu, i.cpu_threshold)
        /\ i.instances[k].above >= Kept.cpu_sustained
    BY <1>3, <1>6, <2>1, <2>2 DEF Pinned
  <2> QED
    BY <1>1, <2>1, <2>3, RecordHasSignal
<1>7. \A m, t, k : Pinned(m, t, k)' = Pinned(m, t, k)
  BY <1>2 DEF Pinned
<1>8. /\ Measured("cpu")' = Measured("cpu")
      /\ \A n, cap : WithinCap(n, cap)' = WithinCap(n, cap)
  BY <1>2, <1>5 DEF Measured, WithinCap
<1>9. PinnedIsFound'
  BY <1>2, <1>6, <1>7, <1>8 DEF PinnedIsFound, Distinguished
<1> QED
  BY <1>2, <1>4, <1>5, <1>9 DEF Signalled

\* As long as the series are what they were, so is this.
LEMMA StaysComplete ==
    ASSUME UNCHANGED load
    PROVE  /\ UNCHANGED <<inventory, basis>> /\ Listed => Listed'
           /\ UNCHANGED <<signals, judged>> /\ Signalled /\ PinnedIsFound
                => Signalled' /\ PinnedIsFound'
<1>1. AllNames' = AllNames /\ Measured("cpu")' = Measured("cpu")
  BY DEF AllNames, Measured
<1>2. \A n, cap : WithinCap(n, cap)' = WithinCap(n, cap)
  BY <1>1 DEF WithinCap
<1>3. \A m, cap : Distinguished(m, cap)' = Distinguished(m, cap)
  BY <1>2 DEF Distinguished
<1>4. \A m, t, k : Pinned(m, t, k)' = Pinned(m, t, k)
  BY DEF Pinned
<1>5. \A list, cap : Complete(list, cap)' = Complete(list, cap)
  BY <1>1, <1>3 DEF Complete
<1>6. ASSUME UNCHANGED <<inventory, basis>>, Listed
      PROVE  Listed'
  BY <1>5, <1>6 DEF Listed
<1>7. ASSUME UNCHANGED <<signals, judged>>, Signalled, PinnedIsFound
      PROVE  Signalled' /\ PinnedIsFound'
  BY <1>1, <1>2, <1>4, <1>7 DEF Signalled, PinnedIsFound
<1> QED
  BY <1>6, <1>7

\* The list, the signals and the settings agree.
TInv == Measurements /\ Listed /\ Signalled /\ PinnedIsFound

\* Every step keeps that.
LEMMA TInvStep == Settled /\ TInv /\ PinWasMeasured /\ [Next]_vars => TInv'
<1> SUFFICES ASSUME Settled, TInv, PinWasMeasured, [Next]_vars PROVE TInv'
  OBVIOUS
<1>1. Measurements'
  BY MeasuredStep DEF TInv
<1>2. CASE Collect
  BY <1>1, <1>2, CollectIsComplete, StaysComplete DEF Collect, TInv
<1>3. CASE Judge
  BY <1>1, <1>3, JudgeIsComplete, StaysComplete DEF Judge, TInv
<1>4. CASE Redeploy
  BY <1>1, <1>4, StaysComplete DEF Redeploy, TInv
<1>5. CASE Rerun
  BY <1>1, <1>5 DEF Rerun, TInv, Listed, Signalled, PinnedIsFound
<1>6. CASE Reexport
  BY <1>1, <1>6, StaysComplete DEF Reexport, TInv
<1>7. CASE UNCHANGED vars
  BY <1>1, <1>7, StaysComplete DEF vars, TInv
<1> QED
  BY <1>2, <1>3, <1>4, <1>5, <1>6, <1>7 DEF Next

\* So it always holds.
LEMMA AlwaysTInv == Spec => []TInv
<1>1. Init => TInv
  BY DEF Init, TInv, Measurements, Listed, Signalled, PinnedIsFound
<1> QED
  BY <1>1, AlwaysSettled, AlwaysPinWasMeasured, TInvStep, PTL DEF Spec

\* collectors.py:65-66: in every reachable state a machine that was pinned under
\* the settings it was read with and judged by is reported, unless another has
\* its name or the cap cuts it off.
THEOREM AlwaysPinnedIsFound == Spec => []PinnedIsFound
<1>1. TInv => PinnedIsFound
  BY DEF TInv
<1> QED
  BY <1>1, AlwaysTInv, PTL

\* Every setting always has a value, the list keeps to the cap it was read with,
\* counts no more samples than it has, and signals are about machines that were
\* measured.
THEOREM AlwaysTypeOK == Spec => []TypeOK
<1>1. Settled /\ TInv => TypeOK
  <2> SUFFICES ASSUME Settled, TInv PROVE TypeOK
    OBVIOUS
  <2>1. DOMAIN Current = DOMAIN Default /\ DOMAIN Kept = DOMAIN Default
    BY SettingsHold
  <2>2. ASSUME NEW i \in inventory
        PROVE  /\ Len(i.instances) <= basis.max_instances
               /\ \A r \in Range(i.instances) : r.instance \in AllNames /\ r.above <= Len(r.cpu)
    BY DEF TInv, Listed, Complete, Range
  <2> QED
    BY <2>1, <2>2 DEF TInv, Signalled, TypeOK
<1> QED
  BY <1>1, AlwaysSettled, AlwaysTInv, PTL
=============================================================================
