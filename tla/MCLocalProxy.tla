---------------------------- MODULE MCLocalProxy ----------------------------
EXTENDS LocalProxy

MCMaxChunks == [a \in Application |-> IF a = "app" THEN 0 ELSE 1]
=============================================================================
