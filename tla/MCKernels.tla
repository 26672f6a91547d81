------------------------------ MODULE MCKernels ------------------------------
(***************************************************************************)
(* The engine's parts below the forward, for TLC: the caches in memory and *)
(* on disk, the block of the attention and the blocks of the argmax.  A    *)
(* behaviour is of one of them; of the others nothing is left to run.      *)
(***************************************************************************)
EXTENDS MCCaches, DeviceArgmax, BlockSoftmax

cacheVars == <<vars, diskVars>>

MCRubbish == {<<NaN, 0>>, <<3, MaxN>>}

NoLaunch == [kernel |-> "none", block |-> 0, positions |-> 0, len |-> 0]

SoftmaxOver ==
  run = NoLaunch /\ at = << >> /\ mem = << >> /\ reg = << >> /\ out = << >>

ArgmaxOver ==
  /\ logits = [i \in {0} |-> Floor] /\ parts = << >>
  /\ ran = 0 .. NB - 1 /\ token = <<0>> /\ n = MaxTokens

PartsInit ==
  \/ MCInit /\ SoftmaxOver /\ ArgmaxOver
  \/ MemoryOver /\ DiskOver /\ SoftmaxInit /\ ArgmaxOver
  \/ MemoryOver /\ DiskOver /\ SoftmaxOver /\ ArgmaxInit

PartsNext ==
  \/ MCNext /\ UNCHANGED <<softVars, argVars>>
  \/ \E d \in Threads : Execute(d) /\ UNCHANGED <<cacheVars, argVars>>
  \/ Synchronise /\ UNCHANGED <<cacheVars, argVars>>
  \/ Finished /\ UNCHANGED <<cacheVars, argVars>>
  \/ Decode   /\ UNCHANGED <<cacheVars, softVars>>
  \/ \E b1 \in 0 .. NB - 1 : StageOne(b1) /\ UNCHANGED <<cacheVars, softVars>>
  \/ StageTwo /\ UNCHANGED <<cacheVars, softVars>>

PartsSpec == PartsInit /\ [][PartsNext]_<<cacheVars, softVars, argVars>>
=============================================================================
