----------------------------- MODULE GroupUsage -----------------------------
(***************************************************************************)
(* The usage that the spawn form shows for a group: the limits of the      *)
(* containers in its pods, as the reflector has them, read by the suffixes *)
(* of primehub_utils.  A pod is known to be of a group by a label, which   *)
(* is the name of the group made safe; a name is a sequence of bytes.      *)
(***************************************************************************)
EXTENDS Integers, SequencesExt, FiniteSetsExt

CONSTANTS
    Safe,             \* bytes that a label may have: small letters and digits
    Hex,              \* for each other byte of a name, dash included, its two digits
    Name,             \* names of groups
    Container,        \* containers by their limits: <<>> or <<[cpu, memory, gpu]>>
    PodId,
    Binary, Decimal   \* 1024 and 1000; TLC has smaller ones, its numbers end at 2^31

Character == Safe \cup DOMAIN Hex
Dash == "-"

ASSUME GroupUsageAssumption ==
    /\ Dash \notin Safe /\ Safe \cap DOMAIN Hex = {}
    /\ Hex \in [DOMAIN Hex -> Safe \X Safe]
    /\ \A c, d \in DOMAIN Hex : Hex[c] = Hex[d] => c = d
    /\ Name \subseteq Seq(Character)
    /\ \A c \in Container : c # <<>> => c[1].memory.number \in Nat
    /\ Binary \in Nat /\ Decimal \in Nat /\ Decimal > 0 /\ Binary >= Decimal

VARIABLE pods    \* the reflector: a set of pods

Phases == {"Pending", "Running", "Succeeded"}

-----------------------------------------------------------------------------
(* Labels.                                                                 *)

\* Mutated form of Escaped: made lower case first.
EscapedLower(c) ==
    IF c = "A" THEN <<"a">> ELSE IF c \in Safe THEN <<c>> ELSE <<Dash>> \o Hex[c]

\* escape_to_dns_label, of one character.
Escaped(c) == IF c \in Safe THEN <<c>> ELSE <<Dash>> \o Hex[c]

\* escape_to_primehub_label.
Label(name) == <<"escaped-">> \o FlattenSeq([i \in DOMAIN name |-> Escaped(name[i])])

-----------------------------------------------------------------------------
(* Quantities: a number and a suffix.                                      *)

\* Mutated form of MemUnit: the branch of Mi is a copy that still has KiB().
MemUnitCopied(u) ==
    CASE u \in {"Gi", "G"} -> <<Binary * Binary * Binary>>
      [] u \in {"Mi", "M", "Ki", "K", "k"} -> <<Binary>>
      [] u = "" -> <<1>>
      [] OTHER -> <<>>

\* convert_mem_resource_to_bytes; <<>> for a suffix that float() refuses.
MemUnit(u) ==
    CASE u \in {"Gi", "G"} -> <<Binary * Binary * Binary>>
      [] u \in {"Mi", "M"} -> <<Binary * Binary>>
      [] u \in {"Ki", "K", "k"} -> <<Binary>>
      [] u = "" -> <<1>>
      [] OTHER -> <<>>

\* convert_cpu_values_to_float, in thousandths.
CpuUnit(u) == CASE u = "m" -> <<1>> [] u = "" -> <<1000>> [] OTHER -> <<>>

Readable(c) == MemUnit(c.memory.unit) # <<>> /\ CpuUnit(c.cpu.unit) # <<>>

\* _get_gpu_resource_from_limits: one kind of GPU is looked at, in this order.
Gpus(c) ==
    LET kinds == SelectSeq(<<"nvidia", "amd", "intel">>, LAMBDA k : k \in DOMAIN c.gpu)
    IN  IF kinds = <<>> THEN 0 ELSE c.gpu[Head(kinds)]

Existing(g) == {p \in pods : Label(p.group) = Label(g) /\ p.phase \in {"Pending", "Running"}}

\* The places of a pod and a container of it that has limits.
Limited(some) ==
    {slot \in some \X UNION {DOMAIN p.containers : p \in some} :
        slot[2] \in DOMAIN slot[1].containers /\ slot[1].containers[slot[2]] # <<>>}

\* The limits at such a place.
At(slot) == slot[1].containers[slot[2]][1]

\* What the limits of the containers of some pods come to.
Total(some, Amount(_)) == SumFunction([slot \in Limited(some) |-> Amount(At(slot))])

\* round(memory / GiB, 1), in tenths.
Tenths(bytes) ==
    LET gib == Binary * Binary * Binary IN (20 * bytes + gib) \div (2 * gib)

Millis(c) == c.cpu.number * CpuUnit(c.cpu.unit)[1]
Bytes(c) == c.memory.number * MemUnit(c.memory.unit)[1]

\* get_container_resource_usage: None if anything cannot be read.
Usage(g) ==
    LET live == Existing(g)
    IN  IF \E slot \in Limited(live) : ~Readable(At(slot)) THEN <<>>
        ELSE <<[cpu |-> Total(live, Millis),
                gpu |-> Total(live, Gpus),
                memory |-> Tenths(Total(live, Bytes))]>>

-----------------------------------------------------------------------------
(* The pods, as the reflector hears of them.                               *)

UsageInit == pods = {}

Added(id, group, containers) ==
    /\ \A p \in pods : p.id # id
    /\ pods' = pods \cup {[id |-> id, group |-> group, phase |-> "Pending",
                           containers |-> containers]}

Moved(p, phase) ==
    /\ <<p.phase, phase>> \in {<<"Pending", "Running">>, <<"Running", "Succeeded">>}
    /\ pods' = (pods \ {p}) \cup {[p EXCEPT !.phase = phase]}

Deleted(p) == pods' = pods \ {p}

UsageNext ==
    \/ \E id \in PodId, group \in Name, containers \in Container \X Container :
          Added(id, group, containers)
    \/ \E p \in pods : Deleted(p) \/ \E phase \in Phases : Moved(p, phase)

UsageSpec == UsageInit /\ [][UsageNext]_pods

-----------------------------------------------------------------------------
(* Properties.                                                             *)

\* What Kubernetes takes a quantity of memory for.
TrueUnit(u) ==
    CASE u = "Gi" -> Binary * Binary * Binary
      [] u = "Mi" -> Binary * Binary
      [] u = "Ki" -> Binary
      [] u = "G" -> Decimal * Decimal * Decimal
      [] u = "M" -> Decimal * Decimal
      [] u = "k" -> Decimal
      [] OTHER -> 1

\* The form never shows less memory than the live pods of the group may use, to
\* the tenth it rounds to: suffixes are read as binary ones or as greater.
MemoryNeverLess ==
    \A g \in Name : Usage(g) # <<>> =>
        LET live == {p \in pods : p.group = g /\ p.phase # "Succeeded"}
        IN  Usage(g)[1].memory >=
              Tenths(Total(live, LAMBDA c : c.memory.number * TrueUnit(c.memory.unit)))

\* What the form shows for a group depends on the live pods of that group only:
\* no two names have one label, and a pod that cannot be read spoils the usage of
\* its own group and no longer than it lives.
UsageOfOwnPods ==
    \A g \in Name :
        LET own == {p \in pods : p.group = g /\ p.phase # "Succeeded"}
        IN  IF Usage(g) = <<>>
            THEN \E slot \in Limited(own) : ~Readable(At(slot))
            ELSE /\ Usage(g)[1].cpu = Total(own, Millis)
                 /\ Usage(g)[1].gpu = Total(own, Gpus)
                 /\ Usage(g)[1].memory = Tenths(Total(own, Bytes))
=============================================================================
