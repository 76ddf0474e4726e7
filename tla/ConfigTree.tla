----------------------------- MODULE ConfigTree -----------------------------
(***************************************************************************)
(* How the configuration page turns the server's configuration, a tree,     *)
(* into a list of names and values.  A node is a value, a list, null, or an *)
(* object with named members.  The order of the members, the sort of the     *)
(* list by name and the values are left out; an entry keeps the path it      *)
(* came from instead.                                                       *)
(***************************************************************************)
EXTENDS Naturals, FiniteSets, SequencesExt

CONSTANT Keys           \* Keys[d]: the names an object may have, by depth from below

Env == "env"
MaxDepth == Len(Keys)   \* bound: objects within objects

VARIABLE config         \* jsonConfig

Leaf(kind) == [kind |-> kind, kids |-> <<>>]
Leaves == {Leaf("value"), Leaf("list"), Leaf("null")}
ObjectsOf(names, nodes) ==
    {[kind |-> "object", kids |-> f] : f \in UNION {[D -> nodes] : D \in SUBSET names}}

RECURSIVE Trees(_)
Trees(d) == IF d = 0 THEN {} ELSE ObjectsOf(Keys[d], Leaves \cup Trees(d - 1))

-----------------------------------------------------------------------------
Entry(prefix, key, path) == [name |-> Append(prefix, key), path |-> Append(path, key)]

\* Mutated: lists are taken for objects without members.
pushedNoList(node) == node.kind = "value"
\* What is pushed as an entry: plain values, and lists joined into one.
pushed(node) == node.kind \in {"value", "list"}

\* The prefix for the members of a member is that member's name alone; what came
\* before it is dropped.
subPrefix(prefix, key) == <<key>>

\* typeof null is "object": a null member is walked and has no members.
RECURSIVE traverseConfig(_, _, _)
traverseConfig(prefix, node, path) ==
    LET keys == SetToSeq(DOMAIN node.kids \ {Env})
        walk(key) == IF pushed(node.kids[key])
                     THEN <<Entry(prefix, key, path)>>
                     ELSE traverseConfig(subPrefix(prefix, key), node.kids[key], Append(path, key))
    IN  FlattenSeq([i \in DOMAIN keys |-> walk(keys[i])])

flattenConfig(node) == traverseConfig(<<>>, node, <<>>)

-----------------------------------------------------------------------------
\* The page is opened with the configuration of the server, and keeps it.
ngOnInit == config \in Trees(MaxDepth)

Init == ngOnInit
Next == UNCHANGED config
Spec == Init /\ [][Next]_config

-----------------------------------------------------------------------------
(* The reference: every way down to a value or a list that avoids env.      *)

RECURSIVE At(_, _)
At(node, path) ==
    IF path = <<>> THEN node
    ELSE IF Head(path) \in DOMAIN node.kids THEN At(node.kids[Head(path)], Tail(path))
    ELSE Leaf("null")

SettingNames == UNION {Keys[d] : d \in 1 .. MaxDepth} \ {Env}
Paths == UNION {[1 .. n -> SettingNames] : n \in 1 .. MaxDepth}

\* The list has every setting outside env, and each exactly once, whatever is nested
\* in what.  The name shown is the full path for a setting at most one object deep, and
\* the last two names of it otherwise: that is when two settings can have the same name.
EverySettingListed ==
    LET list == flattenConfig(config)
        settings == {p \in Paths : At(config, p).kind \in {"value", "list"}}
    IN  /\ {list[i].path : i \in DOMAIN list} = settings
        /\ Len(list) = Cardinality(settings)
        /\ \A i \in DOMAIN list :
              LET p == list[i].path
              IN  list[i].name = IF Len(p) <= 2 THEN p ELSE SubSeq(p, Len(p) - 1, Len(p))
=============================================================================
