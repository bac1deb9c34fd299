---------------------------- MODULE MCMetadataCache ---------------------------
(* One key, three concurrent tasks and four lookups of theirs, an absence  *)
(* that is believed for two blocks of three, and one reorganisation.       *)
EXTENDS MetadataCache
===============================================================================
