------------------------------ MODULE MCPages -------------------------------
(***************************************************************************)
(* The storage object, status, configuration and API explorer pages of the  *)
(* console UI, on small instances.  One page is open in a behaviour; the    *)
(* others stay as they begin.                                               *)
(***************************************************************************)
EXTENDS ConsolePages

VARIABLES
    which,      \* the page that is open
    tConfig     \* ConfigTree

-----------------------------------------------------------------------------
\* Storage: two places, two values, two permissions.
TwoIds == {"i1", "i2"}
TwoValues == {"v1", "v2"}
TwoPerms == {"private", "public"}

\* Configurations three objects deep.
Tree == INSTANCE ConfigTree WITH
    Keys <- <<{"a", "b", "env"}, {"b", "env"}, {"a"}>>, config <- tConfig

-----------------------------------------------------------------------------
MCInit ==
    /\ which \in {"object", "status", "config", "explorer", "tree"}
    /\ Init /\ (which # "object" => patient /\ object.id = "i1" /\ object.ver = "v1"
                                    /\ form.perm = "private" /\ table["i2"] = Gone)
    /\ Status!Init /\ (which # "status" => sRange = 1 /\ sUp = {})
    /\ Config!Init /\ (which # "config" => cOneFile /\ cRows)
    /\ Explorer!Init /\ (which # "explorer" => xSerial /\ xEndpoint = "rpc")
    /\ IF which = "tree" THEN Tree!Init ELSE tConfig = Tree!Leaf("object")

MCNext ==
    /\ UNCHANGED which
    /\ \/ /\ which = "object" /\ Next
          /\ UNCHANGED <<statusVars, configVars, explorerVars, tConfig>>
       \/ /\ which = "status" /\ Status!Next
          /\ UNCHANGED <<vars, configVars, explorerVars, tConfig>>
       \/ /\ which = "config" /\ Config!Next
          /\ UNCHANGED <<vars, statusVars, explorerVars, tConfig>>
       \/ /\ which = "explorer" /\ Explorer!Next
          /\ UNCHANGED <<vars, statusVars, configVars, tConfig>>
       \/ /\ which = "tree" /\ Tree!Next
          /\ UNCHANGED <<vars, statusVars, configVars, explorerVars>>

MCSpec == MCInit /\ [][MCNext]_<<which, vars, statusVars, configVars, explorerVars, tConfig>>

-----------------------------------------------------------------------------
\* ConfigTree: every setting outside env is listed once, by the end of its path.
EverySettingListed == which = "tree" => Tree!EverySettingListed
=============================================================================
