---------------------------- MODULE ResourceUnits ----------------------------
(***************************************************************************)
(* ResourceUnitConverter of src/common/utils.py: the memory and CPU        *)
(* amounts of a pod, as Kubernetes writes them, and the requests derived   *)
(* from its limits.                                                        *)
(*                                                                         *)
(* An amount is a number and a unit.  The number may have decimals, so it  *)
(* is counted in halves; a unit outside the tables stands for a string     *)
(* that does not parse.  Kibi and Kilo are 1024 and 1000 in the code.      *)
(***************************************************************************)
EXTENDS Naturals

CONSTANTS Kibi, Kilo, Milli     \* a thousand of each sort: binary, decimal, CPU

ASSUME UnitsAssumption ==
    Kibi \in Nat \ {0} /\ Kilo \in Nat \ {0} /\ Milli \in Nat \ {0}

Mebi == Kibi * Kibi

Gibi == Kibi * Mebi

MemoryUnits == [none |-> 1, Ki |-> Kibi, Mi |-> Mebi, Gi |-> Gibi, Ti |-> Kibi * Gibi,
                K |-> Kilo, M |-> Kilo * Kilo, G |-> Kilo * Kilo * Kilo,
                T |-> Kilo * Kilo * Kilo * Kilo]

CpuUnits == [none |-> Milli, m |-> 1]

Amount(n, unit) == [halves |-> 2 * n, unit |-> unit]

Bytes(a) == (a.halves * MemoryUnits[a.unit]) \div 2

Millicores(a) == (a.halves * CpuUnits[a.unit]) \div 2

\* Variant, not part of the specification.  RequestsFit: the Mi are rounded up.
MemoryStringRoundedUp(bytes) ==
    IF bytes >= Gibi /\ bytes % Gibi = 0
    THEN Amount(bytes \div Gibi, "Gi")
    ELSE Amount((bytes \div Mebi) + 1, "Mi")

MemoryString(bytes) ==
    IF bytes >= Gibi /\ bytes % Gibi = 0
    THEN Amount(bytes \div Gibi, "Gi")
    ELSE Amount(bytes \div Mebi, "Mi")

CpuString(millicores) ==
    IF millicores >= Milli /\ millicores % Milli = 0
    THEN Amount(millicores \div Milli, "none")
    ELSE Amount(millicores, "m")

\* A ratio is a fraction; int() drops what is left over.
Share(n, ratio) == (n * ratio.num) \div ratio.den

Ratios == [num : Nat, den : Nat \ {0}]

\* A limit that does not parse is its own request.
DeriveMemory(limit, ratio) ==
    IF limit.unit \in DOMAIN MemoryUnits
    THEN MemoryString(Share(Bytes(limit), ratio))
    ELSE limit

DeriveCpu(limit, ratio) ==
    IF limit.unit \in DOMAIN CpuUnits
    THEN CpuString(Share(Millicores(limit), ratio))
    ELSE limit
=============================================================================
