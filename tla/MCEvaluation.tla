---------------------------- MODULE MCEvaluation ----------------------------
(***************************************************************************)
(* Clusters of one and of two nodes; campaigns of one to three planned     *)
(* runs in every mode, of a corpus where nobody counts it too.             *)
(***************************************************************************)
EXTENDS Evaluation

MCSize == <<1, 2, 2>>

Options(mode, source, scenarios, warmups, repetitions) ==
    [mode |-> mode, source |-> source, scenarios |-> scenarios,
     warmups |-> warmups, repetitions |-> repetitions]

MCCampaign ==
    {Options("persistent", "mock-encrypted-corpus", <<2, 3>>, 0, 1),
     Options("persistent", "synthetic", <<2, 1>>, 0, 1),
     Options("persistent", "synthetic", <<1>>, 1, 2),
     Options("remote", "synthetic", <<2>>, 1, 2),
     Options("isolated", "synthetic", <<1, 2>>, 0, 1),
     Options("isolated", "mock-encrypted-corpus", <<2>>, 0, 1)}
=============================================================================
