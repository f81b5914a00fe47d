------------------------------- MODULE MCReload -------------------------------
(***************************************************************************)
(* Contents of config.yaml for the run of module Reload.  Providers are    *)
(* numbered 1 to 3, models 1 to 4.                                         *)
(***************************************************************************)
EXTENDS Reload

Model(id, priority) == [id |-> id, priority |-> priority]

Provider(id, models) == [id |-> id, keyMissing |-> FALSE, models |-> models]

Keyless(id, models) == [id |-> id, keyMissing |-> TRUE, models |-> models]

Older(default, providers) ==
    [wellFormed |-> TRUE, version |-> 2, default |-> default, providers |-> providers,
     local |-> <<>>, remote |-> <<>>]

\* Two providers with lists, priorities given and missing, one without a list
\* in between.
Mixed == Older(2, << Provider(2, <<Model(1, 0), Model(2, 3)>>),
                     Provider(3, <<>>),
                     Provider(1, <<Model(1, 1), Model(3, 0)>>) >>)

\* The key of the first provider is not set.
Skipping == Older(1, << Keyless(2, <<Model(2, 1)>>), Provider(1, <<Model(1, 0)>>) >>)

\* The only provider of the default model is skipped: does not load.
SkippedDefault == [Skipping EXCEPT !.default = 2]

\* The newer schema, with a flat list beside it, in which neither the missing
\* key nor the missing priority matters.
Sections == [Older(4, <<Keyless(3, <<Model(3, 0)>>)>>) EXCEPT !.local = <<2>>, !.remote = <<1>>]

MCFiles == [mixed |-> Mixed, skipping |-> Skipping, broken |-> SkippedDefault,
            sections |-> Sections]

MCAnswers == {<<1, 4>>, <<2>>}
=============================================================================
