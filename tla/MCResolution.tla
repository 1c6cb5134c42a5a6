---------------------------- MODULE MCResolution ----------------------------
(* Small instances of Resolution: quantities on both sides of every band.  *)
EXTENDS Resolution, TLC

CONSTANTS here, annex, depot

(* Against a baseline of 20: 19 is off by 5 %, 16 by 20 %, 10 by 50 %, and *)
(* 11 by just less than that.                                              *)
Sample == {-1, 1, 10, 11, 16, 19, 20}
FewSample == {0, 9, 10}

(* The annex, whose id contains the reported location's, may be at that    *)
(* one's baseline or not; the depot covers some shortages, some exactly.   *)
SampleLevels == here :> Sample @@ annex :> {4, 20} @@ depot :> {1, 4, 9}
FewLevels == here :> FewSample @@ depot :> FewSample
=============================================================================
