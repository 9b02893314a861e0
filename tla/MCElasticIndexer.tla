-------------------------- MODULE MCElasticIndexer --------------------------
(* Checking ElasticIndexer: its constants are numbers the cfg gives. *)
EXTENDS ElasticIndexer
=============================================================================
