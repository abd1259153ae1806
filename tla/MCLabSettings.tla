---------------------------- MODULE MCLabSettings ----------------------------
(* Small instances of LabSettings for TLC: api runs the loops, api-b does  *)
(* not.                                                                    *)
EXTENDS LabSettings

CONSTANTS api, apiB, apiLoop, apiReq, apiReq2, bReq

HomeOf == [t \in Threads |-> IF t = bReq THEN apiB ELSE api]

AllKeys == <<"stale", "silent", "retention", "vt">>
ThreeKeys == <<"stale", "silent", "vt">>
EnvOf == [k \in Keys |-> IF k = "silent" THEN 2 ELSE 1]

Body(keys, v) == [set |-> [k \in keys |-> v], bad |-> FALSE]
Shared == { Body({"stale"}, 2), Body({"silent"}, 1),
            Body({"vt"}, NoKey), Body({"vt"}, 3) }
Thresholds == { Body({"stale"}, 2), Body({"silent"}, 1), Body({"silent"}, 3) }
Rejectable == { [set |-> [k \in {"retention"} |-> 3], bad |-> TRUE], Body({"silent"}, 3),
                Body({"stale"}, 4) }
OneEach == { Body({"retention"}, 3), Body({"silent"}, 3) }
=============================================================================
