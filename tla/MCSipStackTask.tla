--------------------------- MODULE MCSipStackTask ---------------------------
(* A small instance of SipStackTask.  The two levels are the map the        *)
(* constructor of CSipStackCtrlMsgMgr builds (lengths 0 and 3000, no kinds  *)
(* listed), the longer length scaled down to 1.                             *)
EXTENDS SipStackTask

MCThresholds == <<0, 1>>
MCAllowed == <<{}, {}>>
=============================================================================
