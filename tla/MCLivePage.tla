------------------------------ MODULE MCLivePage ------------------------------
(* Instances of LivePage: the cfg files choose pages and bounds.              *)
EXTENDS LivePage
=============================================================================
