------------------------------ MODULE MCCampaign -----------------------------
(***************************************************************************)
(* BenchmarkCampaign for TLC: the two crypto modes of                      *)
(* benchmark_runner/runner.py under one of its network profiles; the       *)
(* router may still have the rules of the other one when the campaign      *)
(* starts.                                                                 *)
(***************************************************************************)
EXTENDS BenchmarkCampaign

MCCryptos == <<"X25519", "X25519MLKEM768">>
MCProfiles == <<"stable">>
=============================================================================
