------------------------------ MODULE MCGateway ------------------------------
(* Gateway for TLC: requests that take every way through the layers.       *)
EXTENDS Gateway

Signed == {"authorization", "x-amz-date", "x-amz-content-sha256", "host"}
Good == [method |-> "PUT", path |-> "object", params |-> {}, headers |-> Signed,
         signed |-> {"host", "x-amz-date"}, auth |-> "sigv4", age |-> MAX_TIME_SKEW_SECS]
Late     == [Good EXCEPT !.age = -MAX_TIME_SKEW_SECS - 1]
Probe    == [Good EXCEPT !.method = "GET", !.path = "/health", !.headers = {}]
WithMd5  == [Good EXCEPT !.headers = @ \cup {"content-md5"}, !.signed = @ \cup {"content-md5"}]
NoTime   == [Good EXCEPT !.auth = "bad_date", !.age = 0]

AllKinds == {Good, Late, NoTime, Probe, WithMd5, [Good EXCEPT !.method = "POST"]}
CONSTANTS r1, r2
Cases ==
  {<<Node, {r1}, {"slow", "drop", "elect", "drain"}>>, <<Node, {r1}, {"raft", "elect"}>>,
   <<Node, {r1, r2}, {"drain", "drop"}>>, <<{1}, {r1, r2}, {"refuse"}>>}
=============================================================================
