------------------------------ MODULE MCFeishu ------------------------------
(* The Feishu connector for TLC.                                            *)
EXTENDS FeishuConnector, TLC

Interchangeable == Permutations(Tasks) \cup Permutations(Requests)
=============================================================================
