---------------------------- MODULE MCRedisCache ----------------------------
(* The instances of RedisCache that TLC checks; see the .cfg files.        *)
EXTENDS RedisCache
=============================================================================
