--------------------------- MODULE MCSmbDfsSearch ---------------------------
(* Instances of SmbDfsSearch for TLC: one node in two has a single action.  *)
EXTENDS SmbDfsSearch

ActionOrders == {<<"Right">>, <<"RightJump", "Right">>}
=============================================================================
