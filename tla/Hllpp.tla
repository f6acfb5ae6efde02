------------------------------- MODULE Hllpp -------------------------------
(***************************************************************************)
(* The HLL++ sketch of python/llm_sketchkit/hllpp.py and                   *)
(* go/sketchkit/hllpp/hllpp.go: sparse registers at a fine precision until *)
(* there are too many of them, dense registers at the normal precision     *)
(* from then on.  What may be said of the estimate rests on one fact: the  *)
(* registers depend on the set of hashes alone, not on the order of        *)
(* updates and merges nor on when a sketch was promoted.                   *)
(***************************************************************************)
EXTENDS Integers, FiniteSets, FiniteSetsExt, Functions

CONSTANTS
  Sketch,     \* the instances a caller holds
  Keying,     \* [Sketch -> ...] profile, precisions, domain and algorithm
  Hash,       \* the hashes that are added
  Body,       \* bytes of other producers: [mode, sparse, dense]
  Width,      \* bits of a hash, 64 in the code
  P, SP,      \* normal and sparse precision
  Threshold   \* the largest number of sparse registers

ASSUME PrecisionAssumption ==
  /\ P \in Nat /\ SP \in Nat /\ Width \in Nat /\ Threshold \in Nat
  /\ 0 < P /\ P < SP /\ SP < Width
ASSUME HashAssumption == Hash \subseteq 0 .. 2 ^ Width - 1

VARIABLES
  mode,     \* "sparse" or "dense"
  sparse,   \* index |-> rank of the sparse registers present
  dense,    \* [0 .. 2^P-1 -> rank]
  seen,     \* history: the hashes behind the sketch
  got,      \* history: the received bodies behind it
  forced    \* history: some sketch behind it was made dense by the caller

vars == <<mode, sparse, dense, seen, got, forced>>

-----------------------------------------------------------------------------
(* Registers. *)

BitLength(n) == Cardinality({i \in 0 .. Width - 1 : 2 ^ i <= n})

RegisterRank(shifted, width) == Min({Width - BitLength(shifted) + 1, width + 1})

Register(hash, precision) ==
  <<hash \div 2 ^ (Width - precision),
    RegisterRank((hash * 2 ^ precision) % 2 ^ Width, Width - precision)>>

(* mutant: the extra index bits are forgotten when they are all zero       *)
SparseToDenseNoOffset(index, rank) ==
  LET bits == SP - P  extra == index % 2 ^ bits
  IN <<index \div 2 ^ bits,
       IF extra # 0 THEN RegisterRank(extra * 2 ^ (Width - bits), bits) ELSE rank>>
SparseToDense(index, rank) ==
  LET bits == SP - P  extra == index % 2 ^ bits
  IN <<index \div 2 ^ bits,
       IF extra # 0 THEN RegisterRank(extra * 2 ^ (Width - bits), bits)
                    ELSE bits + rank>>

NoSparse == [i \in {} |-> 0]
Zeros    == [i \in 0 .. 2 ^ P - 1 |-> 0]

(* Register by register the larger rank; an absent one counts as 0.        *)
Rank(regs, i) == IF i \in DOMAIN regs THEN regs[i] ELSE 0
Join(left, right) ==
  [i \in DOMAIN left \cup DOMAIN right |-> Max({Rank(left, i), Rank(right, i)})]

(* force_dense, and the loop of merge that feeds sparse registers to dense *)
(* ones.                                                                   *)
Densified(regs) ==
  LET moved == {SparseToDense(i, regs[i]) : i \in DOMAIN regs}
  IN [i \in DOMAIN Zeros |-> Max({0} \cup {m[2] : m \in {n \in moved : n[1] = i}})]

TooMany(regs) == Cardinality(DOMAIN regs) > Threshold

-----------------------------------------------------------------------------
(* What parse accepts. *)

SparseAccepted(regs) ==
  /\ Cardinality(DOMAIN regs) <= Threshold
  /\ \A i \in DOMAIN regs : i < 2 ^ SP /\ regs[i] \in 1 .. Width - SP + 1

WireAccepts(m, regs, registers) ==
  \/ m = "sparse" /\ SparseAccepted(regs)
  \/ m = "dense" /\ \A i \in DOMAIN registers : registers[i] <= Width - P + 1

\* A body has the registers of its mode only.
ASSUME BodyAssumption ==
  \A body \in Body :
    /\ body.mode \in {"sparse", "dense"}
    /\ IsFiniteSet(DOMAIN body.sparse) /\ body.sparse \in [DOMAIN body.sparse -> Nat]
    /\ body.dense \in [DOMAIN Zeros -> Nat]
    /\ IF body.mode = "sparse" THEN body.dense = Zeros ELSE body.sparse = NoSparse

-----------------------------------------------------------------------------
(* Calls. *)

BecomeDense(s, registers) ==
  /\ mode'   = [mode EXCEPT ![s] = "dense"]
  /\ sparse' = [sparse EXCEPT ![s] = NoSparse]
  /\ dense'  = [dense EXCEPT ![s] = registers]

(* New sparse registers, promoted when there are too many.                 *)
SetSparse(s, regs) ==
  \/ TooMany(regs) /\ BecomeDense(s, Densified(regs))
  \/ /\ ~ TooMany(regs)
     /\ sparse' = [sparse EXCEPT ![s] = regs]
     /\ UNCHANGED <<mode, dense>>

Singleton(register) == [i \in {register[1]} |-> register[2]]

AddSparse(s, h) ==
  /\ mode[s] = "sparse"
  /\ SetSparse(s, Join(sparse[s], Singleton(Register(h, SP))))

AddDense(s, h) ==
  /\ mode[s] = "dense"
  /\ dense' = [dense EXCEPT ![s] = Join(@, Singleton(Register(h, P)))]
  /\ UNCHANGED <<mode, sparse>>

AddHash(s, h) ==
  /\ AddSparse(s, h) \/ AddDense(s, h)
  /\ seen' = [seen EXCEPT ![s] = @ \cup {h}]
  /\ UNCHANGED <<got, forced>>

ForceDense(s) ==
  /\ IF mode[s] = "sparse" THEN BecomeDense(s, Densified(sparse[s]))
                           ELSE UNCHANGED <<mode, sparse, dense>>
  /\ forced' = [forced EXCEPT ![s] = TRUE]
  /\ UNCHANGED <<seen, got>>

MergeSparse(s, t) ==
  /\ mode[s] = "sparse" /\ mode[t] = "sparse"
  /\ SetSparse(s, Join(sparse[s], sparse[t]))

MergeDenseIntoSparse(s, t) ==
  /\ mode[s] = "sparse" /\ mode[t] = "dense"
  /\ BecomeDense(s, Join(Densified(sparse[s]), dense[t]))

(* mutant: sparse registers joined by their index                          *)
MergeSparseIntoDenseRaw(s, t) ==
  /\ mode[s] = "dense" /\ mode[t] = "sparse"
  /\ dense' = [dense EXCEPT ![s] = [i \in DOMAIN @ |-> Max({@[i], Rank(sparse[t], i)})]]
  /\ UNCHANGED <<mode, sparse>>
MergeSparseIntoDense(s, t) ==
  /\ mode[s] = "dense" /\ mode[t] = "sparse"
  /\ dense' = [dense EXCEPT ![s] = Join(@, Densified(sparse[t]))]
  /\ UNCHANGED <<mode, sparse>>

MergeDense(s, t) ==
  /\ mode[s] = "dense" /\ mode[t] = "dense"
  /\ dense' = [dense EXCEPT ![s] = Join(@, dense[t])]
  /\ UNCHANGED <<mode, sparse>>

Merge(s, t) ==
  /\ Keying[s] = Keying[t]
  /\ \/ MergeSparse(s, t) \/ MergeDenseIntoSparse(s, t)
     \/ MergeSparseIntoDense(s, t) \/ MergeDense(s, t)
  /\ seen'   = [seen EXCEPT ![s] = @ \cup seen[t]]
  /\ got'    = [got EXCEPT ![s] = @ \cup got[t]]
  /\ forced' = [forced EXCEPT ![s] = @ \/ forced[t]]

MergeRefused(s, t) == Keying[s] # Keying[t] /\ UNCHANGED vars

(* clone, or marshal_binary followed by parse.                             *)
Clone(s, t) ==
  /\ Keying[s] = Keying[t]
  /\ WireAccepts(mode[s], sparse[s], dense[s])
  /\ mode'   = [mode EXCEPT ![t] = mode[s]]
  /\ sparse' = [sparse EXCEPT ![t] = sparse[s]]
  /\ dense'  = [dense EXCEPT ![t] = dense[s]]
  /\ seen'   = [seen EXCEPT ![t] = seen[s]]
  /\ got'    = [got EXCEPT ![t] = got[s]]
  /\ forced' = [forced EXCEPT ![t] = forced[s]]

(* parse of another producer's bytes.                                      *)
Receive(s, body) ==
  /\ WireAccepts(body.mode, body.sparse, body.dense)
  /\ mode'   = [mode EXCEPT ![s] = body.mode]
  /\ sparse' = [sparse EXCEPT ![s] = body.sparse]
  /\ dense'  = [dense EXCEPT ![s] = body.dense]
  /\ seen'   = [seen EXCEPT ![s] = {}]
  /\ got'    = [got EXCEPT ![s] = {body}]
  /\ forced' = [forced EXCEPT ![s] = body.mode = "dense"]

Init ==
  /\ mode   = [s \in Sketch |-> "sparse"]
  /\ sparse = [s \in Sketch |-> NoSparse]
  /\ dense  = [s \in Sketch |-> Zeros]
  /\ seen   = [s \in Sketch |-> {}]
  /\ got    = [s \in Sketch |-> {}]
  /\ forced = [s \in Sketch |-> FALSE]

Next ==
  \/ \E s \in Sketch, h \in Hash : AddHash(s, h)
  \/ \E s \in Sketch : ForceDense(s)
  \/ \E s, t \in Sketch : Merge(s, t)
  \/ \E s, t \in Sketch : MergeRefused(s, t)
  \/ \E s, t \in Sketch : Clone(s, t)
  \/ \E s \in Sketch, body \in Body : Receive(s, body)

Spec == Init /\ [][Next]_vars

-----------------------------------------------------------------------------
(* Properties. *)

(* The registers that the hashes and bodies behind a sketch call for, at    *)
(* both precisions: index by index the largest rank of all of them.        *)
JoinAll(maps) ==
  [i \in UNION {DOMAIN m : m \in maps} |-> Max({Rank(m, i) : m \in maps})]

FineSources(s) ==
  {Singleton(Register(h, SP)) : h \in seen[s]} \cup {b.sparse : b \in got[s]}
NormalSources(s) ==
  {Zeros} \cup {Singleton(Register(h, P)) : h \in seen[s]}
    \cup {Densified(b.sparse) : b \in got[s]} \cup {b.dense : b \in got[s]}

FineRegisters(s)   == JoinAll(FineSources(s))
NormalRegisters(s) == JoinAll(NormalSources(s))

(* A sketch is dense exactly when it was forced to be or its hashes need   *)
(* too many sparse registers.                                              *)
RepresentationExact(s) ==
  mode[s] = "dense" <=> forced[s] \/ Cardinality(DOMAIN FineRegisters(s)) > Threshold

(* Registers and representation, hence the bytes, are a function of the    *)
(* set of hashes and received bodies, not of the order of the calls: in    *)
(* dense mode the registers are those of a sketch that had been dense from *)
(* the start.  And parse accepts what marshal_binary writes of them.       *)
RegistersExact ==
  \A s \in Sketch :
    /\ RepresentationExact(s)
    /\ WireAccepts(mode[s], sparse[s], dense[s])
    /\ mode[s] = "sparse" => sparse[s] = FineRegisters(s) /\ dense[s] = Zeros
    /\ mode[s] = "dense" => dense[s] = NormalRegisters(s) /\ sparse[s] = NoSparse

(* Promoting a sparse sketch at any time gives the registers it would have *)
(* if it had been dense from the start; and a sparse register converts to  *)
(* the normal register of its hash, for every hash of the width.           *)
Convertible ==
  {h \in 0 .. 2 ^ Width - 1 :
     LET fine == Register(h, SP)  normal == Register(h, P)
     IN /\ fine[1] < 2 ^ SP /\ normal[1] \in DOMAIN Zeros
        /\ SparseToDense(fine[1], fine[2]) = normal}

ConversionExact ==
  /\ \A s \in Sketch : mode[s] = "sparse" => Densified(sparse[s]) = NormalRegisters(s)
  /\ 0 .. 2 ^ Width - 1 \subseteq Convertible
=============================================================================
