---------------------------- MODULE MCObjectStore ----------------------------
(* ObjectStore for TLC.                                                    *)
EXTENDS ObjectStore

ObjectKinds == {"put", "delete", "get"}

(* Bucket requests come where nothing fails, gets where nothing crashes.   *)
Cases ==
  {<<{}, Kind>>, <<Harmless, ObjectKinds>>, <<FaultKinds \ {"crash"}, ObjectKinds>>,
   <<FaultKinds, {"put", "delete"}>>}

=============================================================================
