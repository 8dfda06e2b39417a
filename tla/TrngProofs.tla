---------------------------- MODULE TrngProofs -----------------------------
(***************************************************************************)
(* The random number generator as a whole: mixer, generator, cipher, FIFO  *)
(* and hash core on one clock.  Proved for every number of words in a      *)
(* block, every timeout, every set of enabled sources and every software.  *)
(*                                                                         *)
(* The two parts are joined by three wires, and neither acknowledges       *)
(* everything it sees: the generator raises seed_ack for one cycle, the    *)
(* mixer looks at more_seed only in two states.  The invariant TrngInv     *)
(* says what the one is doing while the other is in a given state          *)
(* (HandshakeInv), that the hash core and the cipher are done when the     *)
(* last word of a block has come (PaceInv), and how old the entropy in     *)
(* every register is (FreshInv).                                           *)
(***************************************************************************)
EXTENDS Trng, TrngCsprngProofs

\* The three wires of the seed handshake.
HandshakeInv ==
    /\ seed_ack_reg <=> csprng_ctrl_reg \in {"CTRL_NSYN", "CTRL_INIT0"}
    /\ more_seed_reg => csprng_ctrl_reg \in {"CTRL_SEED0", "CTRL_SEED1"}
    /\ seed_syn_reg <=> mixer_ctrl_reg = "CTRL_ACK"
    /\ csprng_ctrl_reg \in {"CTRL_NSYN", "CTRL_INIT0"} => mixer_ctrl_reg = "CTRL_ACK"
    /\ csprng_ctrl_reg \in {"CTRL_INIT1", "CTRL_NEXT0", "CTRL_NEXT1", "CTRL_MORE"} =>
         mixer_ctrl_reg = "CTRL_NEXT"
    /\ HarmlessDiscard

\* The hash core and the cipher are not overtaken.
PaceInv ==
    /\ entropy_collect_ctrl_reg \in {Ack(s) : s \in Sources}
         /\ word_ctr_reg = MIXER_WORDS - 1 => hash_ready /\ ready_reg
    /\ mixer_ctrl_reg \in {"CTRL_MIX", "CTRL_ACK"} => hash_ready
    /\ mixer_ctrl_reg \in {"CTRL_MIX", "CTRL_SYN", "CTRL_ACK"} => ready_reg
    /\ csprng_ctrl_reg \in {"CTRL_INIT1", "CTRL_NEXT0", "CTRL_NEXT1", "CTRL_MORE"} =>
         ctr_current

\* What is collected, hashed and offered is younger than the last discard,
\* and a digest is used once.
FreshInv ==
    /\ entropy_collect_ctrl_reg # Idle => ~block_stale
    /\ mixer_ctrl_reg = "CTRL_MIX" => ~block_stale
    /\ mixer_ctrl_reg = "CTRL_SYN" => ~hash_stale /\ (hash_ready => digest = "fresh")
    /\ mixer_ctrl_reg = "CTRL_ACK" => digest = IF seed_ack_reg THEN "used" ELSE "fresh"

TopTypeOK == discard_reg \in BOOLEAN /\ debug_mux_reg \in DebugParts

\* What holds whenever discards are written, and what needs them careful.
PartsInv == GenInv /\ BudgetInv /\ MixerTypeOK /\ TopTypeOK

TrngInv == /\ PartsInv
           /\ HandshakeInv /\ CollectorWorksForMixer /\ RequestIsHeard
           /\ PaceInv /\ FreshInv /\ SeedsAreFresh

\* One rising edge of clk with an access that the address decoder lets through.
MixerAccess(api) ==
    /\ api.op = "mixer_ctrl" => api.enable \in BOOLEAN
    /\ api.op = "mixer_timeout" => api.value \in 0 .. TIMEOUT_CTR_SIZE - 1
    /\ api.op = "debug_mux" => api.part \in DebugParts

TrngEdge(syn, api, debug_update) ==
    /\ debug_update \in BOOLEAN
    /\ Access(api) /\ MixerAccess(api)
    /\ Delivers(syn)
    /\ TrngClock(syn, api, debug_update)
    /\ CarefulDiscards => HarmlessDiscard'

-----------------------------------------------------------------------------
(* The mixer on its own.                                                   *)

\* The states of the collector are different ones.
LEMMA CollectorStates ==
    /\ \A s : Wait(s) # Idle /\ Ack(s) # Idle
    /\ \A s, t : Wait(s) # Ack(t)
    /\ \A s, t : (Ack(s) = Ack(t) => s = t) /\ (Wait(s) = Wait(t) => s = t)
<1>1. \A s : Len(Wait(s)) = 2 /\ Len(Ack(s)) = 2
  BY DEF Wait, Ack
<1>2. Len(Idle) = 1
  BY DEF Idle
<1>3. \A s, t : Wait(s)[1] # Ack(t)[1]
  BY DEF Wait, Ack
<1>4. \A s : Wait(s)[2] = s /\ Ack(s)[2] = s
  BY DEF Wait, Ack
<1>5. \A s : Wait(s) # Idle /\ Ack(s) # Idle
  BY <1>1, <1>2
<1>. QED  BY <1>3, <1>4, <1>5

\* The collector's states: idle, or waiting for or acknowledging a source.
CollectorRange == {Idle} \cup {Wait(s) : s \in Sources} \cup {Ack(s) : s \in Sources}

\* Skipping to the next source stays among the three.
LEMMA NextSourceInRange == \A s \in Sources : NextSource(s) \in Sources
BY DEF NextSource, Sources

\* The timeout counter stays below its size.
LEMMA TimeoutInRange ==
    ASSUME MixerTypeOK
    PROVE  /\ TimeoutCtrRuns => entropy_timeout_ctr_reg' \in 0 .. TIMEOUT_CTR_SIZE - 1
           /\ 0 \in 0 .. TIMEOUT_CTR_SIZE - 1
           /\ (entropy_timeout_ctr_reg + 1) % TIMEOUT_CTR_SIZE \in 0 .. TIMEOUT_CTR_SIZE - 1
<1>1. TIMEOUT_CTR_SIZE \in Nat \ {0} /\ entropy_timeout_ctr_reg \in 0 .. TIMEOUT_CTR_SIZE - 1
  BY TimeoutSizeAssumption DEF MixerTypeOK
<1>. QED  BY <1>1 DEF TimeoutCtrRuns

\* One step of the collector: registers in range, where it starts, where it
\* stops, and what the last word of a block finds.
LEMMA CollectorMoves ==
    ASSUME MixerTypeOK, NEW more_seed, NEW discard, NEW syn,
           EntropyCollect(more_seed, discard, Enabled, syn)
    PROVE  /\ entropy_collect_ctrl_reg' \in CollectorRange
           /\ word_ctr_reg' \in 0 .. MIXER_WORDS - 1
           /\ entropy_timeout_ctr_reg' \in 0 .. TIMEOUT_CTR_SIZE - 1
           /\ entropy_collect_ctrl_reg = Idle =>
                (entropy_collect_ctrl_reg' # Idle <=> collect_block(more_seed, discard))
           /\ block_done => entropy_collect_ctrl_reg' = Idle
           /\ entropy_collect_ctrl_reg' \in {Ack(s) : s \in Sources} =>
                /\ entropy_collect_ctrl_reg # Idle
                /\ word_ctr_reg' = word_ctr_reg /\ syn # {} /\ ~block_done
<1>1. /\ MIXER_WORDS \in Nat \ {0} /\ word_ctr_reg \in 0 .. MIXER_WORDS - 1
      /\ entropy_collect_ctrl_reg \in CollectorRange
      /\ entropy_timeout_ctr_reg \in 0 .. TIMEOUT_CTR_SIZE - 1
      /\ 0 \in 0 .. MIXER_WORDS - 1
  BY MixerWordsAssumption DEF MixerTypeOK, CollectorRange
<1>2. /\ TimeoutCtrRuns => entropy_timeout_ctr_reg' \in 0 .. TIMEOUT_CTR_SIZE - 1
      /\ 0 \in 0 .. TIMEOUT_CTR_SIZE - 1
      /\ (entropy_timeout_ctr_reg + 1) % TIMEOUT_CTR_SIZE \in 0 .. TIMEOUT_CTR_SIZE - 1
  BY TimeoutInRange
<1>3. 0 \in Sources
  BY DEF Sources
<1>4. CASE EntropyIdle(more_seed, discard)
  BY <1>1, <1>2, <1>3, <1>4, CollectorStates DEF EntropyIdle, CollectorRange, block_done
<1>5. CASE EntropyStop
  BY <1>1, <1>2, <1>5, CollectorStates DEF EntropyStop, CollectorRange, block_done
<1>6. ASSUME NEW s \in Sources, EntropyWord(s, Enabled, syn)
      PROVE  /\ entropy_collect_ctrl_reg' = Ack(s) /\ entropy_collect_ctrl_reg = Wait(s)
             /\ word_ctr_reg' = word_ctr_reg /\ syn # {} /\ TimeoutCtrRuns
  BY <1>6 DEF EntropyWord
<1>7. ASSUME NEW s \in Sources, EntropyGivesUp(s, Enabled, syn)
      PROVE  /\ entropy_collect_ctrl_reg' = Wait(NextSource(s))
             /\ entropy_collect_ctrl_reg = Wait(s)
             /\ word_ctr_reg' = word_ctr_reg /\ entropy_timeout_ctr_reg' = 0
  BY <1>7 DEF EntropyGivesUp
<1>8. ASSUME NEW s \in Sources, EntropyWaits(s, Enabled, syn)
      PROVE  /\ entropy_collect_ctrl_reg' = Wait(s)
             /\ entropy_collect_ctrl_reg = Wait(s)
             /\ word_ctr_reg' = word_ctr_reg
             /\ entropy_timeout_ctr_reg' = (entropy_timeout_ctr_reg + 1) % TIMEOUT_CTR_SIZE
  BY <1>8 DEF EntropyWaits
<1>9. ASSUME NEW s \in Sources, EntropySkips(s, Enabled)
      PROVE  /\ entropy_collect_ctrl_reg' = Wait(NextSource(s))
             /\ entropy_collect_ctrl_reg = Wait(s)
             /\ word_ctr_reg' = word_ctr_reg
             /\ entropy_timeout_ctr_reg' = 0 \/ TimeoutCtrRuns
  BY <1>9 DEF EntropySkips
<1>10. ASSUME NEW s \in Sources, EntropyAck(s)
       PROVE  /\ entropy_collect_ctrl_reg = Ack(s)
              /\ entropy_collect_ctrl_reg' = IF block_done THEN Idle ELSE Wait(NextSource(s))
              /\ word_ctr_reg' \in 0 .. MIXER_WORDS - 1
              /\ TimeoutCtrRuns
  <2>1. ~block_done => word_ctr_reg # MIXER_WORDS - 1
    BY <1>10 DEF EntropyAck, block_done
  <2>2. word_ctr_reg' \in 0 .. MIXER_WORDS - 1
    BY <1>1, <1>10, <2>1 DEF EntropyAck
  <2>. QED  BY <1>10, <2>2 DEF EntropyAck
<1>11. ASSUME NEW s \in Sources, entropy_collect_ctrl_reg = Wait(s)
       PROVE  ~block_done /\ entropy_collect_ctrl_reg # Idle
  BY <1>11, CollectorStates DEF block_done
<1>12. CASE \E s \in Sources : EntropyWord(s, Enabled, syn)
  BY <1>1, <1>2, <1>6, <1>11, <1>12 DEF CollectorRange
<1>13. CASE \E s \in Sources : EntropyGivesUp(s, Enabled, syn)
  BY <1>1, <1>2, <1>7, <1>11, <1>13, NextSourceInRange, CollectorStates DEF CollectorRange
<1>14. CASE \E s \in Sources : EntropyWaits(s, Enabled, syn)
  BY <1>1, <1>2, <1>8, <1>11, <1>14, CollectorStates DEF CollectorRange
<1>15. CASE \E s \in Sources : EntropySkips(s, Enabled)
  BY <1>1, <1>2, <1>9, <1>11, <1>15, NextSourceInRange, CollectorStates DEF CollectorRange
<1>16. CASE \E s \in Sources : EntropyAck(s)
  BY <1>1, <1>2, <1>10, <1>16, NextSourceInRange, CollectorStates DEF CollectorRange
<1>. QED
  BY <1>4, <1>5, <1>12, <1>13, <1>14, <1>15, <1>16 DEF EntropyCollect

\* The mixer's control FSM: where each state is entered from.
LEMMA MixerMoves ==
    ASSUME MixerTypeOK, NEW more_seed, NEW seed_ack, NEW discard,
           MixerCtrl(more_seed, seed_ack, discard)
    PROVE  /\ mixer_ctrl_reg' \in {"CTRL_IDLE", "CTRL_COLLECT", "CTRL_MIX",
                                   "CTRL_SYN", "CTRL_ACK", "CTRL_NEXT"}
           /\ {seed_syn_reg', init_done_reg'} \subseteq BOOLEAN
           /\ mixer_ctrl_reg' = "CTRL_IDLE" =>
                \/ mixer_ctrl_reg = "CTRL_IDLE" /\ ~more_seed
                \/ mixer_ctrl_reg # "CTRL_IDLE" /\ discard
           /\ mixer_ctrl_reg' = "CTRL_COLLECT" =>
                \/ mixer_ctrl_reg = "CTRL_IDLE" /\ more_seed
                \/ mixer_ctrl_reg = "CTRL_NEXT" /\ more_seed /\ ~discard
                \/ mixer_ctrl_reg = "CTRL_COLLECT" /\ ~block_done /\ ~discard
           /\ mixer_ctrl_reg' = "CTRL_MIX" =>
                mixer_ctrl_reg = "CTRL_COLLECT" /\ block_done /\ ~discard
           /\ mixer_ctrl_reg' = "CTRL_SYN" =>
                \/ Mixing(discard)
                \/ mixer_ctrl_reg = "CTRL_SYN" /\ ~hash_ready /\ ~discard
           /\ mixer_ctrl_reg' = "CTRL_ACK" =>
                \/ mixer_ctrl_reg = "CTRL_SYN" /\ hash_ready /\ ~discard
                \/ mixer_ctrl_reg = "CTRL_ACK" /\ ~seed_ack /\ ~discard
           /\ mixer_ctrl_reg' = "CTRL_NEXT" =>
                \/ mixer_ctrl_reg = "CTRL_ACK" /\ seed_ack /\ ~discard
                \/ mixer_ctrl_reg = "CTRL_NEXT" /\ ~more_seed /\ ~discard
           /\ (seed_syn_reg <=> mixer_ctrl_reg = "CTRL_ACK")
                /\ ~(mixer_ctrl_reg = "CTRL_ACK" /\ discard) =>
                (seed_syn_reg' <=> mixer_ctrl_reg' = "CTRL_ACK")
<1>0. /\ mixer_ctrl_reg \in {"CTRL_IDLE", "CTRL_COLLECT", "CTRL_MIX",
                             "CTRL_SYN", "CTRL_ACK", "CTRL_NEXT"}
      /\ seed_syn_reg \in BOOLEAN /\ init_done_reg \in BOOLEAN
  BY DEF MixerTypeOK
<1>1. CASE MixerIdle(more_seed)
  BY <1>0, <1>1 DEF MixerIdle
<1>2. CASE MixerDiscard(discard)
  BY <1>0, <1>2 DEF MixerDiscard
<1>3. CASE MixerCollect(discard)
  BY <1>0, <1>3 DEF MixerCollect
<1>4. CASE MixerMix(discard)
  BY <1>0, <1>4 DEF MixerMix, Mixing
<1>5. CASE MixerSyn(discard)
  BY <1>0, <1>5 DEF MixerSyn
<1>6. CASE MixerAck(seed_ack, discard)
  BY <1>0, <1>6 DEF MixerAck
<1>7. CASE MixerNext(more_seed, discard)
  BY <1>0, <1>7 DEF MixerNext
<1>. QED
  BY <1>1, <1>2, <1>3, <1>4, <1>5, <1>6, <1>7 DEF MixerCtrl

\* The hash core: it stays ready unless it is started, and the digest that it
\* leaves is as old as the block.
LEMMA HashMoves ==
    ASSUME MixerTypeOK, NEW taken, NEW discard, HashClock(taken, discard)
    PROVE  /\ sha512_ctrl_reg' \in {"CTRL_IDLE", "CTRL_ROUNDS", "CTRL_DONE"}
           /\ digest' \in {"none", "fresh", "used", "stale"}
           /\ hash_ready /\ ~Mixing(discard) =>
                sha512_ctrl_reg' = "CTRL_IDLE" /\ digest' = DigestAfter(taken, discard)
           /\ hash_ready /\ Mixing(discard) => sha512_ctrl_reg' # "CTRL_IDLE"
           /\ ~hash_ready /\ sha512_ctrl_reg' = "CTRL_IDLE" /\ ~discard /\ ~hash_stale =>
                digest' = "fresh"
<1>0. /\ sha512_ctrl_reg \in {"CTRL_IDLE", "CTRL_ROUNDS", "CTRL_DONE"}
      /\ digest \in {"none", "fresh", "used", "stale"}
  BY DEF MixerTypeOK
<1>1. CASE HashStart(taken, discard)
  BY <1>0, <1>1 DEF HashStart, StartsHash, hash_ready, DigestAfter
<1>2. CASE HashRounds(taken, discard)
  BY <1>0, <1>2 DEF HashRounds, StartsHash, hash_ready, DigestAfter
<1>3. CASE HashDone(discard)
  BY <1>0, <1>3 DEF HashDone, StartsHash, hash_ready, DigestAfter
<1>4. CASE HashIdle(taken, discard)
  BY <1>0, <1>4 DEF HashIdle, StartsHash, hash_ready, DigestAfter
<1>. QED  BY <1>1, <1>2, <1>3, <1>4 DEF HashClock

\* Every register of the mixer stays in range.
LEMMA MixerTypeStep ==
    ASSUME MixerTypeOK, NEW more_seed, NEW seed_ack, NEW discard \in BOOLEAN, NEW syn,
           NEW api, MixerAccess(api), NEW taken,
           MixerClock(more_seed, seed_ack, discard, Enabled, syn, api, taken)
    PROVE  MixerTypeOK'
<1>1. /\ entropy_collect_ctrl_reg' \in CollectorRange
      /\ word_ctr_reg' \in 0 .. MIXER_WORDS - 1
      /\ entropy_timeout_ctr_reg' \in 0 .. TIMEOUT_CTR_SIZE - 1
  BY CollectorMoves DEF MixerClock
<1>2. /\ mixer_ctrl_reg' \in {"CTRL_IDLE", "CTRL_COLLECT", "CTRL_MIX",
                              "CTRL_SYN", "CTRL_ACK", "CTRL_NEXT"}
      /\ {seed_syn_reg', init_done_reg'} \subseteq BOOLEAN
  BY MixerMoves DEF MixerClock
<1>3. /\ sha512_ctrl_reg' \in {"CTRL_IDLE", "CTRL_ROUNDS", "CTRL_DONE"}
      /\ digest' \in {"none", "fresh", "used", "stale"}
  BY HashMoves DEF MixerClock
<1>4. block_stale' \in BOOLEAN /\ hash_stale' \in BOOLEAN
  BY DEF MixerClock, Staleness, MixerTypeOK
<1>5. mixer_enable_reg' \in BOOLEAN /\ entropy_timeout_reg' \in 0 .. TIMEOUT_CTR_SIZE - 1
  BY DEF MixerClock, MixerApi, MixerAccess, MixerTypeOK
<1>. QED  BY <1>1, <1>2, <1>3, <1>4, <1>5 DEF MixerTypeOK, CollectorRange

-----------------------------------------------------------------------------
(* The parts keep their invariants inside the whole.                       *)

\* A cycle of the whole is a cycle of the generator and one of the mixer.
LEMMA PartsMove ==
    ASSUME PartsInv, NEW syn, NEW api, NEW debug_update, TrngEdge(syn, api, debug_update)
    PROVE  /\ GenEdge(seed_syn_reg, digest, discard_reg, api,
                      debug_update /\ debug_mux_reg = "CSPRNG")
           /\ MixerClock(more_seed_reg, seed_ack_reg, discard_reg, Enabled, syn, api,
                         seed_syn_reg /\ SeedTaken)
           /\ CsprngCtrl(seed_syn_reg, digest, discard_reg)
           /\ discard_reg \in BOOLEAN /\ seed_syn_reg \in BOOLEAN
<1>1. /\ seed_syn_reg \in BOOLEAN /\ digest \in Seeds /\ discard_reg \in BOOLEAN
  BY DigestAssumption DEF PartsInv, MixerTypeOK, TopTypeOK
<1>2. (debug_update /\ debug_mux_reg = "CSPRNG") \in BOOLEAN
  OBVIOUS
<1>3. CsprngClock(seed_syn_reg, digest, discard_reg, api,
                  debug_update /\ debug_mux_reg = "CSPRNG")
  BY DEF TrngEdge, TrngClock
<1>4. GenEdge(seed_syn_reg, digest, discard_reg, api,
              debug_update /\ debug_mux_reg = "CSPRNG")
  BY <1>1, <1>2, <1>3 DEF GenEdge, TrngEdge
<1>. QED  BY <1>1, <1>3, <1>4 DEF TrngEdge, TrngClock, CsprngClock

\* Every part keeps its own invariant, careful discards or not.
LEMMA PartsStep ==
    ASSUME PartsInv, NEW syn, NEW api, NEW debug_update, TrngEdge(syn, api, debug_update)
    PROVE  PartsInv'
<1>1. GenInv'
  BY PartsMove, GenStep DEF PartsInv
<1>2. BudgetInv'
  BY PartsMove, BudgetStep DEF PartsInv, GenEdge, CsprngClock
<1>3. MixerTypeOK'
  BY PartsMove, MixerTypeStep DEF PartsInv, TrngEdge
<1>4. TopTypeOK'
  BY DEF PartsInv, TopTypeOK, TrngEdge, TrngClock, TrngApi, MixerAccess
<1>. QED  BY <1>1, <1>2, <1>3, <1>4 DEF PartsInv

-----------------------------------------------------------------------------
(* The seed handshake.                                                     *)

\* The strobes of the generator, by the state they come with.
LEMMA CtrlStrobes ==
    ASSUME GenTypeOK, NEW seed_syn, NEW seed_data, NEW discard,
           CsprngCtrl(seed_syn, seed_data, discard)
    PROVE  /\ seed_ack_reg' <=> csprng_ctrl_reg' \in {"CTRL_NSYN", "CTRL_INIT0"}
           /\ more_seed_reg' => csprng_ctrl_reg' \in {"CTRL_SEED0", "CTRL_SEED1"}
           /\ csprng_ctrl_reg' = "CTRL_SEED1" => more_seed_reg'
           /\ csprng_ctrl_reg' = "CTRL_SEED0" =>
                more_seed_reg' \/ (Runs("CTRL_SEED0", discard) /\ ~seed_syn)
           /\ csprng_ctrl_reg # "CTRL_CANCEL" /\ discard => csprng_ctrl_reg' = "CTRL_CANCEL"
           /\ csprng_ctrl_reg = "CTRL_CANCEL" => csprng_ctrl_reg' = "CTRL_IDLE"
           /\ Runs("CTRL_SEED0", discard) /\ seed_syn => csprng_ctrl_reg' = "CTRL_NSYN"
           /\ Runs("CTRL_SEED1", discard) /\ seed_syn => csprng_ctrl_reg' = "CTRL_INIT0"
<1>1. CASE CtrlCancelled(discard)
  BY <1>1 DEF CtrlCancelled, GoTo, Cancels, Runs
<1>2. CASE CtrlIdle(discard)
  BY <1>2 DEF CtrlIdle, GoTo, Cancels, Runs
<1>3. CASE CtrlSeed0(seed_syn, seed_data, discard)
  BY <1>3 DEF CtrlSeed0, GoTo, Cancels, Runs
<1>4. CASE CtrlNsyn(discard)
  BY <1>4 DEF CtrlNsyn, GoTo, Cancels, Runs
<1>5. CASE CtrlSeed1(seed_syn, seed_data, discard)
  BY <1>5 DEF CtrlSeed1, GoTo, Cancels, Runs
<1>6. CASE CtrlInit0(discard)
  BY <1>6 DEF CtrlInit0, GoTo, Cancels, Runs
<1>7. CASE CtrlInit1(discard)
  BY <1>7 DEF CtrlInit1, GoTo, Cancels, Runs
<1>8. CASE CtrlNext0(discard)
  BY <1>8 DEF CtrlNext0, GoTo, Cancels, Runs
<1>9. CASE CtrlNext1(discard)
  BY <1>9 DEF CtrlNext1, GoTo, Cancels, Runs
<1>10. CASE CtrlMore(discard)
  BY <1>10 DEF CtrlMore, GoTo, Cancels, Runs
<1>11. CASE CtrlCancel
  BY <1>11 DEF CtrlCancel, GoTo, Cancels, Runs
<1>. QED
  BY <1>1, <1>2, <1>3, <1>4, <1>5, <1>6, <1>7, <1>8, <1>9, <1>10, <1>11 DEF CsprngCtrl

\* The wires of the handshake stay in step, a request is heard, and the
\* collector works only for the mixer.
LEMMA HandshakeStep ==
    ASSUME CarefulDiscards, TrngInv, NEW syn, NEW api, NEW debug_update,
           TrngEdge(syn, api, debug_update)
    PROVE  HandshakeInv' /\ RequestIsHeard' /\ CollectorWorksForMixer'
<1>0. /\ PartsInv /\ HandshakeInv /\ CollectorWorksForMixer /\ RequestIsHeard
      /\ GenTypeOK /\ MixerTypeOK
  BY DEF TrngInv, PartsInv, GenInv
<1>1. /\ CsprngCtrl(seed_syn_reg, digest, discard_reg)
      /\ discard_reg \in BOOLEAN /\ seed_syn_reg \in BOOLEAN
      /\ MixerCtrl(more_seed_reg, seed_ack_reg, discard_reg)
      /\ EntropyCollect(more_seed_reg, discard_reg, Enabled, syn)
  BY <1>0, PartsMove DEF MixerClock
<1>2. HarmlessDiscard'
  BY DEF TrngEdge
<1>3. ~(mixer_ctrl_reg = "CTRL_ACK" /\ discard_reg)
  BY <1>0 DEF HandshakeInv, HarmlessDiscard
<1>4. seed_syn_reg' <=> mixer_ctrl_reg' = "CTRL_ACK"
  BY <1>0, <1>1, <1>3, MixerMoves DEF HandshakeInv
<1>5. /\ seed_ack_reg' <=> csprng_ctrl_reg' \in {"CTRL_NSYN", "CTRL_INIT0"}
      /\ more_seed_reg' => csprng_ctrl_reg' \in {"CTRL_SEED0", "CTRL_SEED1"}
  BY <1>0, <1>1, CtrlStrobes
<1>6. ASSUME csprng_ctrl_reg' \in {"CTRL_NSYN", "CTRL_INIT0"}
      PROVE  mixer_ctrl_reg' = "CTRL_ACK"
  <2>1. /\ csprng_ctrl_reg \in {"CTRL_SEED0", "CTRL_SEED1"}
        /\ seed_syn_reg /\ ~discard_reg
    BY <1>1, <1>6, CtrlMoves DEF Runs, Cancels
  <2>2. mixer_ctrl_reg = "CTRL_ACK" /\ ~seed_ack_reg
    BY <1>0, <2>1 DEF HandshakeInv
  <2>. QED  BY <1>0, <1>1, <2>1, <2>2, MixerMoves DEF Mixing
<1>7. ASSUME csprng_ctrl_reg' \in {"CTRL_INIT1", "CTRL_NEXT0", "CTRL_NEXT1", "CTRL_MORE"}
      PROVE  mixer_ctrl_reg' = "CTRL_NEXT"
  <2>1. /\ csprng_ctrl_reg \in {"CTRL_INIT0", "CTRL_INIT1", "CTRL_NEXT0", "CTRL_NEXT1",
                                "CTRL_MORE"}
        /\ ~discard_reg
    BY <1>1, <1>7, CtrlMoves DEF Runs, Cancels
  <2>2. \/ mixer_ctrl_reg = "CTRL_ACK" /\ seed_ack_reg
        \/ mixer_ctrl_reg = "CTRL_NEXT" /\ ~more_seed_reg
    BY <1>0, <2>1 DEF HandshakeInv
  <2>. QED  BY <1>0, <1>1, <2>1, <2>2, MixerMoves DEF Mixing
<1>8. HandshakeInv'
  BY <1>2, <1>4, <1>5, <1>6, <1>7 DEF HandshakeInv
<1>9. ASSUME csprng_ctrl_reg' \in {"CTRL_SEED0", "CTRL_SEED1"}, ~more_seed_reg'
      PROVE  mixer_ctrl_reg' \in {"CTRL_COLLECT", "CTRL_MIX", "CTRL_SYN", "CTRL_ACK"}
  <2>1. csprng_ctrl_reg = "CTRL_SEED0" /\ ~seed_syn_reg /\ ~discard_reg
    BY <1>0, <1>1, <1>9, CtrlStrobes DEF Runs, Cancels
  <2>2. ~seed_ack_reg
    BY <1>0, <2>1 DEF HandshakeInv
  <2>3. more_seed_reg \/ mixer_ctrl_reg \in {"CTRL_COLLECT", "CTRL_MIX", "CTRL_SYN", "CTRL_ACK"}
    BY <1>0, <2>1 DEF RequestIsHeard
  <2>. QED  BY <1>0, <1>1, <2>1, <2>2, <2>3, MixerMoves
<1>10. RequestIsHeard'
  BY <1>9 DEF RequestIsHeard
<1>11. ASSUME entropy_collect_ctrl_reg' # Idle
       PROVE  mixer_ctrl_reg' = "CTRL_COLLECT"
  <2>1. ~block_done
    BY <1>0, <1>1, <1>11, CollectorMoves
  <2>2. CASE entropy_collect_ctrl_reg = Idle
    <3>1. collect_block(more_seed_reg, discard_reg)
      BY <1>0, <1>1, <1>11, <2>2, CollectorMoves
    <3>. QED  BY <1>0, <1>1, <3>1, MixerMoves DEF collect_block, Mixing
  <2>3. CASE entropy_collect_ctrl_reg # Idle
    <3>1. mixer_ctrl_reg = "CTRL_COLLECT" /\ ~discard_reg
      BY <1>0, <2>3 DEF CollectorWorksForMixer, HandshakeInv, HarmlessDiscard
    <3>. QED  BY <1>0, <1>1, <2>1, <3>1, MixerMoves DEF Mixing
  <2>. QED  BY <2>2, <2>3
<1>12. CollectorWorksForMixer'
  BY <1>11 DEF CollectorWorksForMixer
<1>. QED  BY <1>8, <1>10, <1>12

-----------------------------------------------------------------------------
(* The pace, and the age of the entropy.                                   *)

\* While a seed is on its way the generator starts no block, so a cipher that
\* is ready stays so until the generator has both halves.
LEMMA CipherStaysReady ==
    ASSUME TrngInv, NEW syn, NEW api, NEW debug_update, TrngEdge(syn, api, debug_update),
           ready_reg, csprng_ctrl_reg \notin {"CTRL_INIT0", "CTRL_NEXT0"}
    PROVE  ready_reg'
<1>1. ChachaClock(cipher_init(discard_reg), cipher_next(discard_reg), num_rounds_reg,
                  KeyChanges(seed_syn_reg, discard_reg))
  BY DEF TrngEdge, TrngClock, CsprngClock
<1>2. ~cipher_init(discard_reg) /\ ~cipher_next(discard_reg)
  BY Strobes
<1>3. chacha_ctrl_reg \in {"CTRL_IDLE", "CTRL_DONE"}
  BY DEF TrngInv, PartsInv, GenInv, CipherInv
<1>4. ChachaWait(cipher_init(discard_reg), cipher_next(discard_reg))
  BY <1>1, <1>2, <1>3 DEF ChachaClock, ChachaStart, ChachaLoad, ChachaRound,
       ChachaLastRound, ChachaFinalize, StartsInit, StartsNext
<1>. QED  BY <1>4 DEF ChachaWait

\* The pace is kept.
LEMMA PaceStep ==
    ASSUME CarefulDiscards, TrngInv, NEW syn, NEW api, NEW debug_update,
           TrngEdge(syn, api, debug_update)
    PROVE  PaceInv'
<1>0. /\ PartsInv /\ HandshakeInv /\ CollectorWorksForMixer /\ PaceInv
      /\ GenTypeOK /\ MixerTypeOK /\ CipherInv
  BY DEF TrngInv, PartsInv, GenInv
<1>1. /\ CsprngCtrl(seed_syn_reg, digest, discard_reg)
      /\ MixerCtrl(more_seed_reg, seed_ack_reg, discard_reg)
      /\ EntropyCollect(more_seed_reg, discard_reg, Enabled, syn)
      /\ HashClock(seed_syn_reg /\ SeedTaken, discard_reg)
      /\ Delivers(syn)
  BY <1>0, PartsMove DEF MixerClock, TrngEdge
<1>2. hash_ready /\ ~Mixing(discard_reg) => hash_ready'
  BY <1>0, <1>1, HashMoves DEF hash_ready
<1>3. /\ mixer_ctrl_reg \in {"CTRL_COLLECT", "CTRL_MIX", "CTRL_SYN"} \/
           (mixer_ctrl_reg = "CTRL_ACK" /\ ~seed_ack_reg) =>
         csprng_ctrl_reg \notin {"CTRL_INIT0", "CTRL_NEXT0"}
  BY <1>0 DEF HandshakeInv
<1>4. ASSUME entropy_collect_ctrl_reg' \in {Ack(s) : s \in Sources},
             word_ctr_reg' = MIXER_WORDS - 1
      PROVE  hash_ready' /\ ready_reg'
  <2>1. entropy_collect_ctrl_reg # Idle /\ word_ctr_reg = MIXER_WORDS - 1 /\ syn # {}
    BY <1>0, <1>1, <1>4, CollectorMoves
  <2>2. hash_ready /\ ready_reg
    BY <1>0, <1>1, <2>1 DEF Delivers, CipherInv
  <2>3. mixer_ctrl_reg = "CTRL_COLLECT"
    BY <1>0, <2>1 DEF CollectorWorksForMixer
  <2>. QED  BY <1>2, <1>3, <2>2, <2>3, CipherStaysReady DEF Mixing
<1>5. ASSUME mixer_ctrl_reg' \in {"CTRL_MIX", "CTRL_SYN", "CTRL_ACK"}
      PROVE  ready_reg'
  <2>1. \/ mixer_ctrl_reg = "CTRL_COLLECT" /\ block_done
        \/ mixer_ctrl_reg \in {"CTRL_MIX", "CTRL_SYN"}
        \/ mixer_ctrl_reg = "CTRL_ACK" /\ ~seed_ack_reg
    BY <1>0, <1>1, <1>5, MixerMoves DEF Mixing
  <2>2. ready_reg
    BY <1>0, <2>1 DEF PaceInv, block_done
  <2>. QED  BY <1>3, <2>1, <2>2, CipherStaysReady
<1>6. ASSUME mixer_ctrl_reg' \in {"CTRL_MIX", "CTRL_ACK"}
      PROVE  hash_ready'
  <2>1. \/ mixer_ctrl_reg = "CTRL_COLLECT" /\ block_done
        \/ mixer_ctrl_reg = "CTRL_SYN" /\ hash_ready
        \/ mixer_ctrl_reg = "CTRL_ACK"
    BY <1>0, <1>1, <1>6, MixerMoves
  <2>2. hash_ready /\ ~Mixing(discard_reg)
    BY <1>0, <2>1 DEF PaceInv, block_done, Mixing
  <2>. QED  BY <1>2, <2>2
<1>7. ASSUME csprng_ctrl_reg' \in {"CTRL_INIT1", "CTRL_NEXT0", "CTRL_NEXT1", "CTRL_MORE"}
      PROVE  ctr_current'
  <2>1. Provenance(cipher_init(discard_reg), KeyChanges(seed_syn_reg, discard_reg))
    BY DEF TrngEdge, TrngClock, CsprngClock, ChachaClock
  <2>2. \/ Runs("CTRL_INIT0", discard_reg)
        \/ csprng_ctrl_reg \in {"CTRL_INIT1", "CTRL_NEXT0", "CTRL_NEXT1", "CTRL_MORE"}
    BY <1>1, <1>7, CtrlMoves DEF Runs
  <2>3. ~KeyChanges(seed_syn_reg, discard_reg)
    BY <2>2 DEF KeyChanges, fifo_discard, Runs
  <2>4. StartsInit(cipher_init(discard_reg)) \/ ctr_current
    <3>1. CASE Runs("CTRL_INIT0", discard_reg)
      <4>1. ready_reg
        BY <1>0, <3>1 DEF HandshakeInv, PaceInv, Runs
      <4>. QED  BY <1>0, <3>1, <4>1 DEF StartsInit, cipher_init, CipherInv
    <3>2. CASE csprng_ctrl_reg \in {"CTRL_INIT1", "CTRL_NEXT0", "CTRL_NEXT1", "CTRL_MORE"}
      BY <1>0, <3>2 DEF PaceInv
    <3>. QED  BY <2>2, <3>1, <3>2
  <2>. QED  BY <2>1, <2>3, <2>4 DEF Provenance
<1>. QED  BY <1>4, <1>5, <1>6, <1>7 DEF PaceInv

\* Old entropy stays out of the blocks and of the seeds.
LEMMA FreshStep ==
    ASSUME CarefulDiscards, TrngInv, NEW syn, NEW api, NEW debug_update,
           TrngEdge(syn, api, debug_update)
    PROVE  FreshInv' /\ SeedsAreFresh'
<1>. DEFINE taken == seed_syn_reg /\ SeedTaken
<1>0. /\ PartsInv /\ HandshakeInv /\ CollectorWorksForMixer /\ PaceInv /\ FreshInv
      /\ SeedsAreFresh /\ GenTypeOK /\ MixerTypeOK
  BY DEF TrngInv, PartsInv, GenInv
<1>1. /\ CsprngCtrl(seed_syn_reg, digest, discard_reg)
      /\ MixerCtrl(more_seed_reg, seed_ack_reg, discard_reg)
      /\ EntropyCollect(more_seed_reg, discard_reg, Enabled, syn)
      /\ HashClock(taken, discard_reg)
      /\ Staleness(more_seed_reg, discard_reg)
      /\ discard_reg \in BOOLEAN /\ seed_syn_reg \in BOOLEAN
  BY <1>0, PartsMove DEF MixerClock
<1>2. ASSUME entropy_collect_ctrl_reg' # Idle
      PROVE  ~block_stale'
  <2>1. CASE entropy_collect_ctrl_reg = Idle
    BY <1>0, <1>1, <1>2, <2>1, CollectorMoves DEF Staleness
  <2>2. CASE entropy_collect_ctrl_reg # Idle
    <3>1. mixer_ctrl_reg = "CTRL_COLLECT" /\ ~discard_reg
      BY <1>0, <2>2 DEF CollectorWorksForMixer, HandshakeInv, HarmlessDiscard
    <3>. QED  BY <1>0, <1>1, <2>2, <3>1 DEF Staleness, FreshInv
  <2>. QED  BY <2>1, <2>2
<1>3. ASSUME mixer_ctrl_reg' = "CTRL_MIX"
      PROVE  ~block_stale'
  <2>1. block_done /\ ~discard_reg
    BY <1>0, <1>1, <1>3, MixerMoves
  <2>2. entropy_collect_ctrl_reg # Idle
    BY <2>1, CollectorStates DEF block_done
  <2>. QED  BY <1>0, <1>1, <2>1, <2>2 DEF Staleness, FreshInv
<1>4. ASSUME mixer_ctrl_reg' = "CTRL_SYN"
      PROVE  ~hash_stale' /\ (hash_ready' => digest' = "fresh")
  <2>1. CASE Mixing(discard_reg)
    <3>1. hash_ready /\ ~block_stale /\ ~discard_reg
      BY <1>0, <2>1 DEF Mixing, PaceInv, FreshInv
    <3>2. ~hash_stale'
      BY <1>1, <2>1, <3>1 DEF Staleness, StartsHash
    <3>3. ~hash_ready'
      BY <1>0, <1>1, <2>1, <3>1, HashMoves DEF hash_ready
    <3>. QED  BY <3>2, <3>3
  <2>2. CASE mixer_ctrl_reg = "CTRL_SYN" /\ ~hash_ready /\ ~discard_reg
    <3>1. ~hash_stale
      BY <1>0, <2>2 DEF FreshInv
    <3>2. ~hash_stale'
      BY <1>1, <2>2, <3>1 DEF Staleness, StartsHash
    <3>3. hash_ready' => digest' = "fresh"
      BY <1>0, <1>1, <2>2, <3>1, HashMoves DEF hash_ready
    <3>. QED  BY <3>2, <3>3
  <2>. QED  BY <1>0, <1>1, <1>4, <2>1, <2>2, MixerMoves
<1>5. ASSUME mixer_ctrl_reg' = "CTRL_ACK"
      PROVE  digest' = IF seed_ack_reg' THEN "used" ELSE "fresh"
  <2>1. /\ hash_ready /\ digest = "fresh" /\ ~discard_reg /\ ~Mixing(discard_reg)
        /\ mixer_ctrl_reg = "CTRL_SYN" \/ (mixer_ctrl_reg = "CTRL_ACK" /\ ~seed_ack_reg)
    BY <1>0, <1>1, <1>5, MixerMoves DEF PaceInv, FreshInv, Mixing
  <2>2. digest' = IF taken THEN "used" ELSE "fresh"
    BY <1>0, <1>1, <2>1, HashMoves DEF DigestAfter
  <2>3. taken <=> seed_ack_reg'
    <3>1. taken => csprng_ctrl_reg' \in {"CTRL_NSYN", "CTRL_INIT0"}
      BY <1>0, <1>1, CtrlStrobes DEF SeedTaken
    <3>2. csprng_ctrl_reg' \in {"CTRL_NSYN", "CTRL_INIT0"} => taken
      BY <1>1, CtrlMoves DEF SeedTaken
    <3>. QED  BY <1>0, <1>1, <3>1, <3>2, CtrlStrobes
  <2>. QED  BY <2>2, <2>3
<1>6. FreshInv'
  BY <1>2, <1>3, <1>4, <1>5 DEF FreshInv
<1>7. taken => digest = "fresh"
  <2>1. taken => /\ csprng_ctrl_reg \in {"CTRL_SEED0", "CTRL_SEED1"}
                 /\ mixer_ctrl_reg = "CTRL_ACK"
    BY <1>0 DEF SeedTaken, Runs, HandshakeInv
  <2>. QED  BY <1>0, <2>1 DEF HandshakeInv, FreshInv
<1>8. SeedsAreFresh'
  BY <1>0, <1>1, <1>7, SeedMoves DEF SeedsAreFresh, SeedTaken
<1>. QED  BY <1>6, <1>8

-----------------------------------------------------------------------------
(* The theorems.                                                           *)

\* Reset establishes the parts' invariants and those of the handshake.
LEMMA TrngInitInv ==
    ASSUME NEW num_rounds \in 0 .. 31,
           NEW num_blocks_low \in 0 .. NUM_BLOCKS_HALF - 1,
           NEW num_blocks_high \in 0 .. NUM_BLOCKS_HALF - 1,
           NEW timeout \in 0 .. TIMEOUT_CTR_SIZE - 1,
           TrngInit(num_rounds, num_blocks_low, num_blocks_high, timeout)
    PROVE  TrngInv
<1>1. GenInv /\ BudgetInv
  BY GenInit, BudgetInit DEF TrngInit
<1>2. 0 \in 0 .. MIXER_WORDS - 1 /\ 0 \in 0 .. TIMEOUT_CTR_SIZE - 1
  BY MixerWordsAssumption, TimeoutSizeAssumption
<1>3. MixerTypeOK
  BY <1>2 DEF TrngInit, MixerInit, MixerTypeOK
<1>4. TopTypeOK
  BY DEF TrngInit, TopTypeOK, DebugParts
<1>5. HandshakeInv /\ CollectorWorksForMixer /\ RequestIsHeard
  BY DEF TrngInit, CsprngInit, MixerInit, HandshakeInv, HarmlessDiscard,
         CollectorWorksForMixer, RequestIsHeard
<1>6. PaceInv
  <2>1. entropy_collect_ctrl_reg \notin {Ack(s) : s \in Sources}
    BY CollectorStates DEF TrngInit, MixerInit
  <2>. QED  BY <2>1 DEF TrngInit, CsprngInit, MixerInit, PaceInv
<1>7. FreshInv /\ SeedsAreFresh
  BY DEF TrngInit, CsprngInit, MixerInit, FreshInv, SeedsAreFresh
<1>. QED  BY <1>1, <1>3, <1>4, <1>5, <1>6, <1>7 DEF TrngInv, PartsInv

\* A step of the whole is such a cycle.
LEMMA TrngNextIsEdge ==
    TrngNext => \E syn, api, debug_update : TrngEdge(syn, api, debug_update)
<1>1. ASSUME NEW api \in ApiOps \cup MixerApiOps \cup TrngApiOps
      PROVE  Access(api) /\ MixerAccess(api)
  <2>1. CASE api \in ApiOps
    BY <2>1, ApiOpsAssumption DEF AllApiOps, Access, MixerAccess
  <2>2. CASE api \in MixerApiOps
    BY <2>2, MixerApiOpsAssumption DEF Access, MixerAccess
  <2>3. CASE api \in TrngApiOps
    BY <2>3, TrngApiOpsAssumption DEF Access, MixerAccess
  <2>. QED  BY <1>1, <2>1, <2>2, <2>3
<1>. QED  BY <1>1, DebugAssumption DEF TrngNext, TrngEdge

\* A cycle in which nothing changes keeps everything.
LEMMA TrngStutter ==
    ASSUME UNCHANGED trngVars
    PROVE  (PartsInv => PartsInv') /\ (TrngInv => TrngInv')
<1>1. /\ UNCHANGED csprngVars /\ UNCHANGED mixerVars
      /\ UNCHANGED <<discard_reg, debug_mux_reg>>
  BY DEF trngVars
<1>2. UNCHANGED chachaVars /\ UNCHANGED genVars
  BY <1>1 DEF csprngVars
<1>3. GenInv => GenInv'
  BY <1>1, GenStutter
<1>4. BudgetInv => BudgetInv'
  BY <1>1, BudgetNext
<1>5. MixerTypeOK => MixerTypeOK'
  BY <1>1 DEF mixerVars, MixerTypeOK
<1>6. TopTypeOK => TopTypeOK'
  BY <1>1 DEF TopTypeOK
<1>7. /\ HandshakeInv => HandshakeInv'
      /\ CollectorWorksForMixer => CollectorWorksForMixer'
      /\ RequestIsHeard => RequestIsHeard'
  BY <1>1, <1>2 DEF mixerVars, genVars, HandshakeInv, HarmlessDiscard,
                    CollectorWorksForMixer, RequestIsHeard
<1>8. PaceInv => PaceInv'
  BY <1>1, <1>2 DEF mixerVars, genVars, chachaVars, PaceInv, hash_ready
<1>9. (FreshInv => FreshInv') /\ (SeedsAreFresh => SeedsAreFresh')
  BY <1>1, <1>2 DEF mixerVars, genVars, FreshInv, hash_ready, SeedsAreFresh
<1>. QED  BY <1>3, <1>4, <1>5, <1>6, <1>7, <1>8, <1>9 DEF PartsInv, TrngInv

\* The parts' invariants hold however discards are written.
THEOREM TrngPartsInvariant ==
    ASSUME NEW num_rounds \in 0 .. 31,
           NEW num_blocks_low \in 0 .. NUM_BLOCKS_HALF - 1,
           NEW num_blocks_high \in 0 .. NUM_BLOCKS_HALF - 1,
           NEW timeout \in 0 .. TIMEOUT_CTR_SIZE - 1
    PROVE  TrngInit(num_rounds, num_blocks_low, num_blocks_high, timeout)
             /\ [][TrngNext]_trngVars => []PartsInv
<1>1. TrngInit(num_rounds, num_blocks_low, num_blocks_high, timeout) => PartsInv
  BY TrngInitInv DEF TrngInv
<1>2. PartsInv /\ [TrngNext]_trngVars => PartsInv'
  BY TrngNextIsEdge, PartsStep, TrngStutter
<1>. QED  BY <1>1, <1>2, PTL

\* The whole invariant holds when discards are written with care.
THEOREM TrngInvariant ==
    ASSUME CarefulDiscards,
           NEW num_rounds \in 0 .. 31,
           NEW num_blocks_low \in 0 .. NUM_BLOCKS_HALF - 1,
           NEW num_blocks_high \in 0 .. NUM_BLOCKS_HALF - 1,
           NEW timeout \in 0 .. TIMEOUT_CTR_SIZE - 1
    PROVE  TrngInit(num_rounds, num_blocks_low, num_blocks_high, timeout)
             /\ [][TrngNext]_trngVars => []TrngInv
<1>1. TrngInit(num_rounds, num_blocks_low, num_blocks_high, timeout) => TrngInv
  BY TrngInitInv
<1>2. TrngInv /\ [TrngNext]_trngVars => TrngInv'
  <2>1. ASSUME TrngInv, NEW syn, NEW api, NEW debug_update,
               TrngEdge(syn, api, debug_update)
        PROVE  TrngInv'
    BY <2>1, PartsStep, HandshakeStep, PaceStep, FreshStep DEF TrngInv
  <2>. QED  BY <2>1, TrngNextIsEdge, TrngStutter
<1>. QED  BY <1>1, <1>2, PTL

\* Every register of trng.v and of its parts stays within its range, whatever
\* software writes and whenever discards come.
THEOREM TrngTypeCorrect ==
    ASSUME NEW num_rounds \in 0 .. 31,
           NEW num_blocks_low \in 0 .. NUM_BLOCKS_HALF - 1,
           NEW num_blocks_high \in 0 .. NUM_BLOCKS_HALF - 1,
           NEW timeout \in 0 .. TIMEOUT_CTR_SIZE - 1
    PROVE  TrngInit(num_rounds, num_blocks_low, num_blocks_high, timeout)
             /\ [][TrngNext]_trngVars => []TrngTypeOK
<1>1. PartsInv => TrngTypeOK
  BY DEF PartsInv, TopTypeOK, GenInv, BudgetInv, FifoInv, GenTypeOK, LossInv,
         CsprngTypeOK, TrngTypeOK
<1>. QED  BY TrngPartsInvariant, <1>1, PTL

\* What is proved of trng_csprng.v on its own holds inside trng.v too, with the
\* mixer's seeds and with discards at any time.
THEOREM GeneratorInsideTrng ==
    ASSUME NEW num_rounds \in 0 .. 31,
           NEW num_blocks_low \in 0 .. NUM_BLOCKS_HALF - 1,
           NEW num_blocks_high \in 0 .. NUM_BLOCKS_HALF - 1,
           NEW timeout \in 0 .. TIMEOUT_CTR_SIZE - 1
    PROVE  TrngInit(num_rounds, num_blocks_low, num_blocks_high, timeout)
             /\ [][TrngNext]_trngVars =>
                  /\ [](KeystreamOfThisSeed /\ HardBlockLimit /\ OneBlockLostAtMost)
                  /\ FifoSpec
<1>1. PartsInv => KeystreamOfThisSeed /\ HardBlockLimit /\ OneBlockLostAtMost
  BY GenIsCorrect DEF PartsInv, BudgetInv
<1>2. TrngInit(num_rounds, num_blocks_low, num_blocks_high, timeout) => FifoInit
  BY DEF TrngInit, CsprngInit
<1>3. PartsInv /\ [TrngNext]_trngVars => [FifoNext]_fifoVars
  <2>1. ASSUME PartsInv, NEW syn, NEW api, NEW debug_update,
               TrngEdge(syn, api, debug_update)
        PROVE  FifoNext
    BY <2>1, PartsMove, DrivesFifo DEF PartsInv
  <2>. QED  BY <2>1, TrngNextIsEdge DEF trngVars, csprngVars
<1>. QED  BY TrngPartsInvariant, <1>1, <1>2, <1>3, PTL DEF FifoSpec

\* With careful discards both seed blocks that the generator holds are digests
\* of full blocks, collected since the last discard and used once, wherever a
\* reseeding or a disabling interrupted the handshake before.
THEOREM SeedsFresh ==
    ASSUME CarefulDiscards,
           NEW num_rounds \in 0 .. 31,
           NEW num_blocks_low \in 0 .. NUM_BLOCKS_HALF - 1,
           NEW num_blocks_high \in 0 .. NUM_BLOCKS_HALF - 1,
           NEW timeout \in 0 .. TIMEOUT_CTR_SIZE - 1
    PROVE  TrngInit(num_rounds, num_blocks_low, num_blocks_high, timeout)
             /\ [][TrngNext]_trngVars => []SeedsAreFresh
<1>1. TrngInv => SeedsAreFresh
  BY DEF TrngInv
<1>. QED  BY TrngInvariant, <1>1, PTL

\* With careful discards the generator never waits for a seed that the mixer
\* does not know of.
THEOREM RequestHeard ==
    ASSUME CarefulDiscards,
           NEW num_rounds \in 0 .. 31,
           NEW num_blocks_low \in 0 .. NUM_BLOCKS_HALF - 1,
           NEW num_blocks_high \in 0 .. NUM_BLOCKS_HALF - 1,
           NEW timeout \in 0 .. TIMEOUT_CTR_SIZE - 1
    PROVE  TrngInit(num_rounds, num_blocks_low, num_blocks_high, timeout)
             /\ [][TrngNext]_trngVars => []RequestIsHeard
<1>1. TrngInv => RequestIsHeard
  BY DEF TrngInv
<1>. QED  BY TrngInvariant, <1>1, PTL

\* With careful discards entropy is collected only for a block that the mixer
\* waits for.
THEOREM CollectorServes ==
    ASSUME CarefulDiscards,
           NEW num_rounds \in 0 .. 31,
           NEW num_blocks_low \in 0 .. NUM_BLOCKS_HALF - 1,
           NEW num_blocks_high \in 0 .. NUM_BLOCKS_HALF - 1,
           NEW timeout \in 0 .. TIMEOUT_CTR_SIZE - 1
    PROVE  TrngInit(num_rounds, num_blocks_low, num_blocks_high, timeout)
             /\ [][TrngNext]_trngVars => []CollectorWorksForMixer
<1>1. TrngInv => CollectorWorksForMixer
  BY DEF TrngInv
<1>. QED  BY TrngInvariant, <1>1, PTL

\* With careful discards the cipher counts the blocks of a seed from the
\* counter that came with it: the one-cycle init strobe is never lost.
THEOREM CounterLoaded ==
    ASSUME CarefulDiscards,
           NEW num_rounds \in 0 .. 31,
           NEW num_blocks_low \in 0 .. NUM_BLOCKS_HALF - 1,
           NEW num_blocks_high \in 0 .. NUM_BLOCKS_HALF - 1,
           NEW timeout \in 0 .. TIMEOUT_CTR_SIZE - 1
    PROVE  TrngInit(num_rounds, num_blocks_low, num_blocks_high, timeout)
             /\ [][TrngNext]_trngVars => []CounterOfThisSeed
<1>1. TrngInv => CounterOfThisSeed
  BY Strobes DEF TrngInv, PaceInv, CounterOfThisSeed
<1>. QED  BY TrngInvariant, <1>1, PTL
=============================================================================
