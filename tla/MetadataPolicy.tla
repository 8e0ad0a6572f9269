--------------------------- MODULE MetadataPolicy ----------------------------
(***************************************************************************)
(* Metadata policies (apply_policy, src/src/federation.rs): a subject's    *)
(* metadata is changed in place by one policy after the other, that of the *)
(* trust anchor first, until one of them refuses it.  Each call takes the  *)
(* parameters of its policy in the order of the JSON map, here any order.  *)
(*                                                                         *)
(* A value is a scalar or an array; the order and repetition of array      *)
(* elements make no difference to the operators.  A parameter's value, and *)
(* every operator of a policy, is {} where there is none and a singleton   *)
(* where there is one.                                                     *)
(***************************************************************************)
EXTENDS Integers, Sequences

CONSTANTS Param,     \* metadata parameters
          Item,      \* scalar values
          Original,  \* metadata to start from
          Policy,    \* policies: functions from some of Param to Operators
          MaxCalls   \* how many policies are applied

Value == [array : BOOLEAN, items : SUBSET Item]

\* The operators of one parameter; object is false when they are no JSON object.
Operators == [object : BOOLEAN, value : SUBSET Value, default : SUBSET Value,
        add : SUBSET (SUBSET Item), essential : BOOLEAN, one_of : SUBSET (SUBSET Item),
        subset_of : SUBSET (SUBSET Item), superset_of : SUBSET (SUBSET Item)]

ASSUME OriginalAssumption == Original \subseteq [Param -> SUBSET Value]
ASSUME PolicyAssumption ==
    \A pol \in Policy : /\ DOMAIN pol \subseteq Param
                        /\ \A p \in DOMAIN pol : pol[p] \in Operators
ASSUME CallsAssumption == MaxCalls \in Nat

VARIABLES metadata,
          before,   \* the metadata when the last call began (history)
          calls,    \* policies applied so far, the current one last (history)
          todo,     \* its parameters still to be handled
          status    \* "idle", "run", "ok" or "error"

policyVars == <<metadata, before, calls, todo, status>>

PolicyTypeOK ==
    /\ metadata \in [Param -> SUBSET Value]
    /\ before \in [Param -> SUBSET Value]
    /\ calls \in Seq(Policy)
    /\ status \in {"idle", "run", "ok", "error"}
    /\ status # "idle" => calls # <<>> /\ todo \subseteq DOMAIN calls[Len(calls)]
    /\ status \in {"idle", "ok"} => todo = {}

PolicyInit ==
    /\ metadata \in Original
    /\ before = metadata
    /\ calls = <<>>
    /\ todo = {}
    /\ status = "idle"
-----------------------------------------------------------------------------
\* value: force.
Forced(m, o) == IF o.value = {} THEN m ELSE o.value

\* Mutant of Defaulted: the default replaces what is there.
DefaultedAlways(m, o) == IF o.default = {} THEN m ELSE o.default

\* default: set if absent.
Defaulted(m, o) == IF m = {} THEN o.default ELSE m

\* add: to an array, or to nothing; a scalar is left as it is.
Added(m, o) ==
    IF o.add = {} THEN m
    ELSE {IF v.array THEN [v EXCEPT !.items = v.items \cup UNION o.add] ELSE v :
             v \in IF m = {} THEN {[array |-> TRUE, items |-> {}]} ELSE m}

Modified(m, o) == Added(Defaulted(Forced(m, o), o), o)

Essential(m, o) == o.essential => m # {}
OneOf(m, o) == \A v \in m, allowed \in o.one_of : ~v.array /\ v.items \subseteq allowed
SubsetOf(m, o) == \A v \in m, allowed \in o.subset_of : v.items \subseteq allowed
SupersetOf(m, o) == \A required \in o.superset_of : required \subseteq UNION {v.items : v \in m}

Satisfied(m, o) == Essential(m, o) /\ OneOf(m, o) /\ SubsetOf(m, o) /\ SupersetOf(m, o)
-----------------------------------------------------------------------------
Current == calls[Len(calls)]

\* apply_policy is called with the next superior's policy.
Call(pol) ==
    /\ status \in {"idle", "ok"}
    /\ Len(calls) < MaxCalls
    /\ calls' = Append(calls, pol)
    /\ before' = metadata
    /\ todo' = DOMAIN pol
    /\ status' = "run"
    /\ UNCHANGED metadata

\* Mutant of Handle: the checks come before the modifiers.
HandleChecksFirst(p) ==
    /\ status = "run" /\ p \in todo
    /\ Current[p].object
    /\ metadata' = [metadata EXCEPT ![p] = Modified(@, Current[p])]
    /\ status' = IF Satisfied(metadata[p], Current[p]) THEN "run" ELSE "error"
    /\ todo' = todo \ {p}
    /\ UNCHANGED <<before, calls>>

\* One parameter: it is modified, then checked; an error does not undo the
\* modification.
Handle(p) ==
    /\ status = "run" /\ p \in todo
    /\ Current[p].object
    /\ metadata' = [metadata EXCEPT ![p] = Modified(@, Current[p])]
    /\ status' = IF Satisfied(metadata'[p], Current[p]) THEN "run" ELSE "error"
    /\ todo' = todo \ {p}
    /\ UNCHANGED <<before, calls>>

NotAnObject(p) ==
    /\ status = "run" /\ p \in todo
    /\ ~Current[p].object
    /\ status' = "error"
    /\ UNCHANGED <<metadata, before, calls, todo>>

Return ==
    /\ status = "run" /\ todo = {}
    /\ status' = "ok"
    /\ UNCHANGED <<metadata, before, calls, todo>>

PolicyNext ==
    \/ \E pol \in Policy : Call(pol)
    \/ \E p \in Param : Handle(p) \/ NotAnObject(p)
    \/ Return

PolicySpec == PolicyInit /\ [][PolicyNext]_policyVars
-----------------------------------------------------------------------------
Passes(m, o) == o.object /\ Satisfied(Modified(m, o), o)

\* The order in which the map yields the parameters makes no difference: a call
\* succeeds exactly when each parameter alone would pass, with each of them then
\* changed by its own operators and no other; and after an error the parameters
\* that it did not get to are as they were.
OrderIrrelevant ==
    /\ status = "ok" =>
          \A p \in Param :
              IF p \in DOMAIN Current
              THEN Passes(before[p], Current[p]) /\ metadata[p] = Modified(before[p], Current[p])
              ELSE metadata[p] = before[p]
    /\ status = "error" =>
          /\ \E p \in DOMAIN Current : ~Passes(before[p], Current[p])
          /\ \A p \in todo : metadata[p] = before[p]

\* Policy i has been applied to p, and has not refused it.
Applied(i, p) == /\ status # "error"
                 /\ p \in DOMAIN calls[i]
                 /\ i = Len(calls) => p \notin todo

\* A policy after the i-th gives the parameter one of the operators.
Later(i, p, operators) ==
    \E j \in (i + 1)..Len(calls) :
        p \in DOMAIN calls[j] /\ \E op \in operators : calls[j][p][op] # {}

\* What a superior demands, its subordinates cannot loosen by what they leave
\* out or by demands of their own: as long as no policy refuses the metadata, an
\* essential parameter stays, required values stay unless a later policy forces
\* another value, and a value leaves the allowed set only when a later policy
\* puts one there with value, add or default.
DemandsStand ==
    \A i \in DOMAIN calls : \A p \in Param : Applied(i, p) =>
        /\ Essential(metadata[p], calls[i][p])
        /\ ~SupersetOf(metadata[p], calls[i][p]) => Later(i, p, {"value"})
        /\ ~(SubsetOf(metadata[p], calls[i][p]) /\ OneOf(metadata[p], calls[i][p])) =>
              Later(i, p, {"value", "add", "default"})
=============================================================================
