---------------------------- MODULE MCWorkStream ----------------------------
EXTENDS WorkStream

OneKey == {"build"}
NoDeps == [k \in {"build"} |-> {}]
Everything == Runners \X {"build"}
Chain == {"build", "test"}
ChainDeps == [k \in Chain |-> IF k = "test" THEN {"build"} ELSE {}]
Both == Runners \X Chain
CapacityOne == [w \in Runners |-> 1]
=============================================================================
