-------------------------- MODULE MCServerProcess ---------------------------
(* ServerProcess with every setting of the flags, together with no option, *)
(* any one option, or all of them.                                         *)
EXTENDS ServerProcess

OptionSets == {{}, DOMAIN Needs} \cup {{o} : o \in DOMAIN Needs}
AllLines == [flags : [Flags -> {"absent", "true", "false"}],
             options : OptionSets, valid : BOOLEAN]
=============================================================================
