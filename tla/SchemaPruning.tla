--------------------------- MODULE SchemaPruning ---------------------------
(***************************************************************************)
(* Pruning the BugSecure schema down to what the repository's operations   *)
(* use (src/scripts/prune-schema.ts): what they select is collected, the   *)
(* input types are closed over, the fields of a kept interface are forced  *)
(* onto its kept implementations, everything else is dropped, and the      *)
(* operations are validated against what is left before it is written.     *)
(*                                                                         *)
(* A schema is a record: `kind` gives its types and their kinds, `field`   *)
(* the fields of each (a pair of a type and a name) with their types,      *)
(* `args` the types of their arguments, `implements` and `members` pairs   *)
(* of types, `values` of each enum.  Built-in scalars are left out.        *)
(***************************************************************************)
EXTENDS FiniteSets

CONSTANTS
  FullSchemas,      \* schemas to prune
  Documents,        \* the operations: what they select, which fragment
                    \* conditions and variable types they use
  Root,             \* the root type
  PublishedValues   \* the enums published in part, with what is of each

VARIABLES stage, full, operations, usage, queue, pruned

pruneVars == <<stage, full, operations, usage, queue, pruned>>

Empty == [kind |-> <<>>, field |-> <<>>, args |-> <<>>, implements |-> {}, members |-> {}, values |-> <<>>]

Types(s) == DOMAIN s.kind
OfKind(s, kinds) == {t \in Types(s) : s.kind[t] \in kinds}
FieldsOf(s, t) == {f \in DOMAIN s.field : f[1] = t}

-----------------------------------------------------------------------------
(* graphql-js, as far as it is relied on: buildSchema and validate *)

\* Every type that is referred to exists and is of the right kind, an
\* implementation has the fields of its interfaces, and no type is empty.
ValidSchema(s) ==
  /\ \A f \in DOMAIN s.field :
       /\ f[1] \in Types(s) /\ s.field[f] \in Types(s) /\ s.args[f] \subseteq Types(s)
       /\ s.kind[f[1]] = "input" => s.args[f] = {}
  /\ \A p \in s.implements :
       /\ p[1] \in OfKind(s, {"object", "interface"}) /\ p[2] \in OfKind(s, {"interface"})
       /\ \A f \in FieldsOf(s, p[2]) : <<p[1], f[2]>> \in DOMAIN s.field
  /\ \A p \in s.members : p[1] \in OfKind(s, {"union"}) /\ p[2] \in OfKind(s, {"object"})
  /\ \A t \in OfKind(s, {"object", "interface", "input"}) : FieldsOf(s, t) # {}
  /\ \A t \in OfKind(s, {"union"}) : \E p \in s.members : p[1] = t

OperationsValidate(s, ops) ==
  /\ ops.selects \subseteq DOMAIN s.field /\ \A f \in ops.selects : s.kind[f[1]] # "input"
  /\ ops.conditions \cup ops.variables \subseteq Types(s)
  \* What is selected can be reached.  A composite type of which nothing is
  \* selected is one of which `__typename` is, which collectUsage leaves out.
  /\ \A f \in ops.selects :
       \/ f[1] = Root
       \/ \E g \in ops.selects : s.field[g] = f[1]
       \/ f[1] \in ops.conditions
  /\ \A t \in ops.conditions : \E g \in ops.selects :
       <<t, s.field[g]>> \in s.implements \/ <<s.field[g], t>> \in s.members

-----------------------------------------------------------------------------
(* pruneSchema *)

PruneInit ==
  /\ stage = "start"
  /\ full = Empty /\ operations = [selects |-> {}, conditions |-> {}, variables |-> {}]
  /\ usage = [fields |-> {}, types |-> {}] /\ queue = {} /\ pruned = Empty

\* Operations that do not fit the full schema are an error before anything else.
StartPruning ==
  /\ stage = "start"
  /\ full' \in FullSchemas /\ operations' \in Documents
  /\ stage' = IF ValidSchema(full') /\ OperationsValidate(full', operations') THEN "collect" ELSE "invalid"
  /\ UNCHANGED <<usage, queue, pruned>>

\* Types that are not inputs pass through the queue without effect.
Inputs == OfKind(full, {"input"})

\* collectUsage
TypesOf(f) == {full.field[f]} \cup full.args[f]
Collected_OfWholeTypes ==
  [fields |-> operations.selects,
   types |-> {Root} \cup operations.conditions \cup operations.variables
               \cup UNION {TypesOf(f) : f \in {g \in DOMAIN full.field : \E h \in operations.selects : g[1] = h[1]}}]
Collected ==
  [fields |-> operations.selects,
   types |-> {Root} \cup (UNION {TypesOf(f) : f \in operations.selects}) \cup operations.conditions
               \cup operations.variables]
Collect ==
  /\ stage = "collect" /\ stage' = "close"
  /\ usage' = Collected /\ queue' = Collected.types \cap Inputs
  /\ UNCHANGED <<full, operations, pruned>>

\* closeOverInputs, one type of the queue after the other
CloseInput(t) ==
  /\ stage = "close" /\ t \in queue
  /\ LET more == {full.field[f] : f \in FieldsOf(full, t)} \ usage.types
     IN  usage' = [usage EXCEPT !.types = @ \cup more] /\ queue' = (queue \ {t}) \cup (more \cap Inputs)
  /\ UNCHANGED <<stage, full, operations, pruned>>

\* isKept
Kept == {t \in Types(full) : FieldsOf(full, t) \cap usage.fields # {} \/ t \in usage.types}

\* reconcileInterfaces; getPossibleTypes gives an interface's object types only
ForcedOn(p) == {<<p[1], f[2]>> : f \in {g \in usage.fields : g[1] = p[2]}}
Forced == UNION {ForcedOn(p) : p \in {q \in full.implements : q[1] \in Kept /\ full.kind[q[1]] = "object"}}
Reconcile ==
  /\ stage = "close" /\ queue = {} /\ stage' = "filter"
  /\ usage' = [usage EXCEPT !.fields = @ \cup Forced]
  /\ UNCHANGED <<full, operations, queue, pruned>>

\* What is left: composite types with their selected fields, inputs whole,
\* unions with the members selected on, enums with the values published.
KeptFields ==
  {f \in DOMAIN full.field : f[1] \in Kept /\ (f \in usage.fields \/ full.kind[f[1]] = "input")}
KeptMembers == {p \in full.members : p[1] \in Kept /\ FieldsOf(full, p[2]) \cap usage.fields # {}}
Only(f, S) == [x \in S |-> f[x]]
Filtered ==
  [kind |-> Only(full.kind, Kept),
   field |-> Only(full.field, KeptFields), args |-> Only(full.args, KeptFields),
   implements |-> {p \in full.implements : p[1] \in Kept /\ p[2] \in Kept},
   members |-> KeptMembers,
   values |-> [t \in DOMAIN full.values \cap Kept |->
                IF t \in DOMAIN PublishedValues THEN full.values[t] \cap PublishedValues[t] ELSE full.values[t]]]

NoSelection == \E t \in Kept \cap OfKind(full, {"object", "interface"}) : FieldsOf(full, t) \cap usage.fields = {}
NoMember == \E t \in Kept \cap OfKind(full, {"union"}) : \A p \in KeptMembers : p[1] # t
EnumChanged == \E t \in DOMAIN PublishedValues \cap DOMAIN Filtered.values : Filtered.values[t] # PublishedValues[t]

Filter ==
  /\ stage = "filter"
  /\ IF NoSelection \/ NoMember \/ EnumChanged THEN stage' = "failed" /\ UNCHANGED pruned
     ELSE stage' = "check" /\ pruned' = Filtered
  /\ UNCHANGED <<full, operations, usage, queue>>

\* The result is built and validated again before it is written.
Acceptable == ValidSchema(pruned) /\ OperationsValidate(pruned, operations)
Write ==
  /\ stage = "check"
  /\ stage' = IF Acceptable THEN "written" ELSE "failed"
  /\ UNCHANGED <<full, operations, usage, queue, pruned>>

PruneNext ==
  \/ StartPruning \/ Collect \/ (\E t \in queue : CloseInput(t)) \/ Reconcile \/ Filter \/ Write

PruneSpec == PruneInit /\ [][PruneNext]_pruneVars

-----------------------------------------------------------------------------
(* Properties *)

\* A set of types that serves the operations: the root, what they name, the types
\* of what they select and of its arguments, and of an input those of its fields.
Serves(S) ==
  /\ {Root} \cup operations.conditions \cup operations.variables \subseteq S
  /\ \A f \in operations.selects : {full.field[f]} \cup full.args[f] \subseteq S
  /\ \A f \in DOMAIN full.field : full.kind[f[1]] = "input" /\ f[1] \in S => full.field[f] \in S

\* A field is published only if an operation selects it, an interface it is a
\* part of forces it, or it is an input's; the types published are the fewest
\* that serve the operations (an input is one of them only if an operation's
\* variable, an argument of what is selected or another such input refers to
\* it); and of an enum published in part, that part.
NothingExtra ==
  /\ \A f \in DOMAIN pruned.field :
       \/ full.kind[f[1]] = "input" \/ f \in operations.selects
       \/ \E p \in full.implements, g \in operations.selects : p[1] = f[1] /\ p[2] = g[1] /\ g[2] = f[2]
  /\ \A S \in SUBSET Types(pruned) : Serves(S) => S = Types(pruned)
  /\ \A t \in DOMAIN PublishedValues \cap DOMAIN pruned.values : pruned.values[t] = PublishedValues[t]

\* A kept implementation's field of the interface's that operations select.
SelectedThrough(p) == {f \in operations.selects : p[1] \in Kept /\ f[1] = p[2]}

\* Such a field has an argument or a type that the interface's has not.
Departs ==
  \E p \in full.implements : \E f \in SelectedThrough(p) :
    LET own == <<p[1], f[2]>>
    IN  full.args[own] # full.args[f] \/ full.field[own] # full.field[f]

\* Such a field of an implementation that is an interface itself, and of which
\* no operation selects it.
InterfaceShort ==
  \E p \in full.implements : \E f \in SelectedThrough(p) :
    full.kind[p[1]] = "interface" /\ p[2] \in Kept /\ <<p[1], f[2]>> \notin operations.selects

\* prune-schema.ts:20: what is written serves every operation and publishes
\* nothing they do not use; and nothing is written only if a composite type
\* has nothing selected, a published enum has changed, an implementation
\* departs from its interface (reconcileInterfaces then brings in fields whose
\* types closeOverInputs has not seen), or one that is itself an interface
\* lacks a field that is selected of the interface it implements
\* (reconcileInterfaces does not bring it in).
PrunedRight ==
  /\ stage = "written" => ValidSchema(pruned) /\ OperationsValidate(pruned, operations) /\ NothingExtra
  /\ stage = "failed" => NoSelection \/ NoMember \/ EnumChanged \/ Departs \/ InterfaceShort

-----------------------------------------------------------------------------
(* The inductive invariant of PrunedRight *)

\* What is collected is used and kept, and no more than what every set of types that
\* serves the operations has; what is not waiting in the queue is closed over.
UsageInv ==
  /\ Collected.types \subseteq usage.types
  /\ Kept \subseteq usage.types
  /\ \A S \in SUBSET Types(full) : Serves(S) => usage.types \subseteq S
  /\ queue \subseteq usage.types \cap Inputs
  /\ \A f \in DOMAIN full.field :
       f[1] \in (usage.types \cap Inputs) \ queue => full.field[f] \in usage.types

\* Fields are the selected ones, and from the reconciliation on the forced ones.
FieldsInv ==
  /\ operations.selects \subseteq usage.fields
  /\ \A f \in usage.fields \ operations.selects :
       \E p \in full.implements : \E g \in SelectedThrough(p) :
         full.kind[p[1]] = "object" /\ f = <<p[1], g[2]>>
  /\ stage = "close" => usage.fields = operations.selects
  /\ stage # "close" => queue = {} /\ \A p \in full.implements : \A g \in SelectedThrough(p) :
       full.kind[p[1]] = "object" => <<p[1], g[2]>> \in usage.fields

PruneInv ==
  /\ stage \in {"collect", "close", "filter", "check", "written", "failed"} =>
       ValidSchema(full) /\ OperationsValidate(full, operations)
  /\ stage \in {"close", "filter", "check", "written", "failed"} => UsageInv /\ FieldsInv
  /\ stage \in {"check", "written"} => pruned = Filtered /\ ~(NoSelection \/ NoMember \/ EnumChanged)
  /\ PrunedRight
=============================================================================
