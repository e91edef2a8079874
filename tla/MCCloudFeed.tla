---------------------------- MODULE MCCloudFeed ----------------------------
(* Instances of CloudFeed for TLC: transactions and tabs as model values.  *)
EXTENDS CloudFeed
============================================================================
