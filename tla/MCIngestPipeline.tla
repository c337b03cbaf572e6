-------------------------- MODULE MCIngestPipeline --------------------------
(* IngestPipeline for TLC: its configurations give every constant.          *)
EXTENDS IngestPipeline
=============================================================================
