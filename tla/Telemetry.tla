------------------------------ MODULE Telemetry ------------------------------
(***************************************************************************)
(* From the Monitoring series of the instances to the signals about their  *)
(* load, in one session whose agent may be deployed anew in between: the   *)
(* inventory of an earlier message stays in the session and the next       *)
(* engine judges it.                                                       *)
(*                                                                         *)
(* A load is a small number, a threshold one of them; time is counted in   *)
(* the aligned samples of five minutes.                                    *)
(***************************************************************************)
EXTENDS Deployment, Listing, FiniteSets, SequencesExt

CONSTANTS
    Machines,   \* instances, by their ids
    NameOf,     \* their names, the same in different zones perhaps
    NameOrder,  \* all names in alphabetical order
    Loads       \* what the machines may do: [Machines -> [cpu, gpu: sequences of loads]]

\* Every machine has a name, and a name has one place in the alphabet.
ASSUME NamesAssumption ==
    /\ NameOrder \in Seq(Range(NameOrder))
    /\ \A a, b \in 1..Len(NameOrder) : NameOrder[a] = NameOrder[b] => a = b
    /\ \A m \in Machines : NameOf[m] \in Range(NameOrder)

\* What Monitoring returns are lists of samples.
ASSUME LoadsAssumption ==
    \A l \in Loads : \A m \in Machines : l[m]["cpu"] \in Seq(Nat) /\ l[m]["gpu"] \in Seq(Nat)

\* The cap is a number of instances wherever it is set.
ASSUME CapAssumption ==
    /\ "max_instances" \in DOMAIN Default
    /\ \A e \in Shells \cup {Default} :
         "max_instances" \in DOMAIN e => e["max_instances"] \in Nat

VARIABLES
    load,       \* the series Monitoring has of each machine
    inventory,  \* the monitoring inventories in the session, none or one
    signals,    \* what the engine's latest judgement says
    basis,      \* the settings the inventory was read with (history)
    judged      \* the settings judged by, and those of the inventory judged (history)

vars == <<deployment, load, inventory, signals, basis, judged>>

-----------------------------------------------------------------------------
(***************************************************************************)
(* Reading.                                                                *)
(***************************************************************************)

\* The machines that have samples of the metric.
Measured(metric) == {m \in Machines : load[m][metric] # <<>>}

\* Series are kept by name; of several with one name the last one listed stays,
\* and the service lists them in any order.
_aligned_series(metric) ==
    {s \in [{NameOf[m] : m \in Measured(metric)} -> Measured(metric)] :
       \A n \in DOMAIN s : NameOf[s[n]] = n}

AtOrAbove(samples, threshold) == Cardinality({k \in DOMAIN samples : samples[k] >= threshold})

Samples(s, n, metric) == IF n \in DOMAIN s THEN load[s[n]][metric] ELSE <<>>

\* Mutation: only names that have both series.
NamesOfBoth(cpu, gpu) == DOMAIN cpu \cap DOMAIN gpu

NamesOfEither(cpu, gpu) == DOMAIN cpu \cup DOMAIN gpu

Record(n, cpu, gpu, threshold) ==
    [instance |-> n,
     id |-> IF n \in DOMAIN cpu THEN cpu[n] ELSE gpu[n],
     cpu |-> Samples(cpu, n, "cpu"),
     above |-> AtOrAbove(Samples(cpu, n, "cpu"), threshold),
     gpu |-> Samples(gpu, n, "gpu")]

Sorted(names) == Those(NameOrder, names)

\* One record per name, in the order of the names.
_merge_series(cpu, gpu, threshold) ==
    LET names == Sorted(NamesOfEither(cpu, gpu))
    IN  [k \in DOMAIN names |-> Record(names[k], cpu, gpu, threshold)]

\* Mutation: the list is not cut.
Uncut(records) == records

\* The first records, up to the cap.
Cut(records) == Upto(records, Current.max_instances)

Collect ==
    /\ \E cpu \in _aligned_series("cpu"), gpu \in _aligned_series("gpu") :
         inventory' = {[cpu_threshold |-> Current.cpu_threshold,
                        instances |-> Cut(_merge_series(cpu, gpu, Current.cpu_threshold))]}
    /\ basis' = Current
    /\ UNCHANGED <<deployment, load, signals, judged>>

-----------------------------------------------------------------------------
(***************************************************************************)
(* Judging.                                                                *)
(***************************************************************************)
MeanReaches(samples, threshold) ==
    samples # <<>> /\ FoldLeft(+, 0, samples) >= threshold * Len(samples)

\* Mutation: the engine's own threshold comes first.
OwnThreshold(i) == Kept.cpu_threshold

\* The threshold recorded with the series comes before the engine's own.
Threshold(i) == i.cpu_threshold

_utilization_signals(i) ==
    {[rule |-> "CJ-MON-SUSTAINED-CPU", instance |-> r.instance] :
       r \in {x \in Range(i.instances) : /\ MeanReaches(x.cpu, Threshold(i))
                                         /\ x.above >= Kept.cpu_sustained}}
      \cup
    {[rule |-> "CJ-MON-GPU-SATURATION", instance |-> r.instance] :
       r \in {x \in Range(i.instances) : MeanReaches(x.gpu, Kept.gpu_threshold)}}

Judge ==
    /\ \E i \in inventory : signals' = _utilization_signals(i)
    /\ judged' = {[kept |-> Kept, read |-> basis]}
    /\ UNCHANGED <<deployment, load, inventory, basis>>

-----------------------------------------------------------------------------
\* A deployed agent is updated in place and its sessions stay; a local run is a
\* session of its own.
Redeploy ==
    \E args \in Arguments :
      Deploy(args) /\ UNCHANGED <<load, inventory, signals, basis, judged>>

Rerun ==
    /\ RunLocally("demo")
    /\ inventory' = {} /\ signals' = {} /\ judged' = {}
    /\ UNCHANGED <<load, basis>>

Reexport == \E env \in Shells : Export(env) /\ UNCHANGED <<load, inventory, signals, basis, judged>>

Init ==
    /\ shell \in Shells
    /\ process = [remote |-> FALSE, environment |-> shell, captured |-> get_settings(shell)]
    /\ asked = [k \in {} |-> ""]
    /\ load \in Loads
    /\ inventory = {} /\ signals = {} /\ judged = {}
    /\ basis = get_settings(shell)

Next == Collect \/ Judge \/ Redeploy \/ Rerun \/ Reexport

Spec == Init /\ [][Next]_vars

-----------------------------------------------------------------------------
(***************************************************************************)
(* Properties the code has.                                                *)
(***************************************************************************)
AllNames == {NameOf[m] : m \in Measured("cpu") \cup Measured("gpu")}

TypeOK ==
    /\ DOMAIN Current = DOMAIN Default /\ DOMAIN Kept = DOMAIN Default
    /\ \A i \in inventory :
         /\ Len(i.instances) <= basis.max_instances
         /\ \A r \in Range(i.instances) : r.instance \in AllNames /\ r.above <= Len(r.cpu)
    /\ \A s \in signals : s.instance \in AllNames
    /\ signals # {} => judged # {}

\* The machine did what the rule says under the settings t it was read with and
\* k it was judged by.
Pinned(m, t, k) ==
    /\ MeanReaches(load[m].cpu, t.cpu_threshold)
    /\ AtOrAbove(load[m].cpu, t.cpu_threshold) >= k.cpu_sustained

\* analysis.py:250 and 258-260: mean and minutes of a signal are of one machine
\* and were held against one threshold, that of the read, though the agent may
\* have been deployed with another one before it judged.
PinWasMeasured ==
    \A j \in judged : \A s \in signals :
      s.rule = "CJ-MON-SUSTAINED-CPU" =>
        \E m \in Measured("cpu") : NameOf[m] = s.instance /\ Pinned(m, j.read, j.kept)

\* Names up to the cap, in their order.
WithinCap(n, cap) ==
    Cardinality({x \in AllNames : \E a, b \in DOMAIN NameOrder :
                   NameOrder[a] = x /\ NameOrder[b] = n /\ a <= b}) <= cap

\* A machine whose name is its own and not cut off is reported if it was
\* pinned, whether it has a GPU and its agent or not (collectors.py:65-66, an
\* absent GPU series means not measured).
PinnedIsFound ==
    \A j \in judged : \A m \in Measured("cpu") :
      /\ Pinned(m, j.read, j.kept)
      /\ \A x \in Machines : NameOf[x] = NameOf[m] => x = m
      /\ WithinCap(NameOf[m], j.read.max_instances)
      => [rule |-> "CJ-MON-SUSTAINED-CPU", instance |-> NameOf[m]] \in signals

(***************************************************************************)
(* A statement the code does not keep.                                     *)
(***************************************************************************)

\* collectors.py:268: the series are folded into one record per instance.
OneRecordPerInstance ==
    \A i \in inventory : \A m \in Measured("cpu") :
      Len(i.instances) < basis.max_instances => \E r \in Range(i.instances) : r.id = m

=============================================================================
