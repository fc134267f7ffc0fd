--------------------------- MODULE MCCacheDelivery ---------------------------
(* A partition of two full chunks and a short one, and a manifest that fits  *)
(* into one short chunk.                                                     *)
EXTENDS CacheDelivery

MCByteLen == [a \in {"partition", "manifest"} |->
                 IF a = "partition" THEN 5 ELSE 1]
=============================================================================
