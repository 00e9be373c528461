-------------------------- MODULE MCMetadataReplica --------------------------
(* MetadataReplica for TLC.  Commands on buckets, on locks and on the      *)
(* membership do not meet in the state machine, so they are apart here.    *)
EXTENDS MetadataReplica

CONSTANTS w, r1, r2
Plain(ops) == [op : ops, holder : {NoHolder}]
Lock(asking, leaving) ==
  [op : {"acquire_lock"}, holder : asking] \cup [op : {"release_lock"}, holder : leaving]
Buckets == Plain({"create_bucket", "delete_bucket", "put_object"})
Members == Plain({"membership"})
Cases ==
  {<<{"busy"}, Buckets>>, <<{"crash"}, Buckets>>, <<{"crash", "corrupt"}, Buckets>>,
   <<{"large"}, Plain({"put_object", "delete_object"})>>, <<{"busy"}, Members>>, <<{"crash"}, Members>>,
   <<{"crash"}, Lock({w, r1}, {w})>>, <<{"busy"}, Lock({r1, r2}, {})>>}
=============================================================================
