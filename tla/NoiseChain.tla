----------------------------- MODULE NoiseChain ------------------------------
(***************************************************************************)
(* How hesplay turns a noise preset into effect chains for sox             *)
(* (cmd/hesplay/noise.go): the preset is normalised, the length of the     *)
(* synthesised buffer follows from the swells, and `repeat` replays what   *)
(* stands before it.  Times and swell periods are in half seconds, so that *)
(* the shipped periods (12.5 s, 50 s) are whole; a period of 0 is a swell  *)
(* that is off.  A colour is one sox can make, one only ffmpeg can, one    *)
(* nobody knows, or none.                                                  *)
(***************************************************************************)
EXTENDS Integers, Sequences, FiniteSetsExt, SequencesExt

MinBuffer == 120       \* noiseMinBufferSecs
MaxBuffer == 600       \* noiseMaxBufferSecs
SafetyCap == 172800    \* noiseSafetyCapSecs
MinPeriod == 10        \* of noiseMaxWaveSpeed
MaxPeriod == 2000      \* of the slowest swell, 0.001 Hz

Clamp(v, lo, hi) == IF v < lo THEN lo ELSE IF v > hi THEN hi ELSE v
Period(v, default) == Clamp(IF v = 0 THEN default ELSE v, MinPeriod, MaxPeriod)
CeilDiv(a, b) == (a + b - 1) \div b

(* normalize: clamps numbers and refuses colours; a layer needs a base and *)
(* a colour of sox's and always swells, a still layer is not offset.       *)
Refused(p) ==
    \/ "unknown" \in {p.type, p.type2, p.floor}
    \/ p.type2 # "none" /\ "ffmpeg" \in {p.type, p.type2}
Normalize(p) ==
    LET slow == IF p.wave2 = 0 /\ p.type2 # "none" THEN 100
                ELSE IF p.wave2 = 0 THEN 0 ELSE Period(p.wave2, 0)
        breath == IF p.floor = "none" \/ p.floorWave = 0 THEN 0 ELSE Period(p.floorWave, 0)
    IN [p EXCEPT !.type = IF @ = "none" THEN "sox" ELSE @,
                 !.wave = Period(@, 25), !.wave2 = slow,
                 !.offset2 = IF slow = 0 THEN 0 ELSE Clamp(@, 0, MaxBuffer),
                 !.floorWave = breath,
                 !.floorOffset = IF breath = 0 THEN 0 ELSE Clamp(@, 0, MaxBuffer)]

(* Mutated form: the buffer of the original, whatever the swells are. *)
CommensurateFixed(p1, p2) == MinBuffer

(* commensurateBufferSecs: the first multiple of the slow swell in the     *)
(* limits that is one of the fast swell's too, else the first; a swell     *)
(* longer than the limit is given up.                                      *)
Commensurate(p1, p2) ==
    LET slow == Max({p1, p2})
        fast == Min({p1, p2})
        fits == {t \in MinBuffer .. MaxBuffer : t % slow = 0}
        both == {t \in fits : t % fast = 0}
    IN IF slow > MaxBuffer THEN CeilDiv(MinBuffer, fast) * fast
       ELSE IF both # {} THEN Min(both) ELSE Min(fits)

Whole(period) == CeilDiv(MinBuffer, period) * period
BufferLen(p) == IF p.wave2 > 0 THEN Commensurate(p.wave, p.wave2) ELSE Whole(p.wave)
FloorLen(p) == IF p.floorWave = 0 THEN MinBuffer ELSE Whole(p.floorWave)
Repeats(len) == CeilDiv(SafetyCap, len) - 1

-----------------------------------------------------------------------------
(* The chains: an effect and its number.  An optional effect is a sequence *)
(* of one or none.                                                         *)
If(c, effect) == IF c THEN <<effect>> ELSE <<>>
Synth(p) ==
    << <<"synth", BufferLen(p) + p.offset2>> >>
    \o IF p.type2 = "none" THEN <<>>
       ELSE << <<"tremolo", p.wave2>> >> \o If(p.offset2 > 0, <<"trim", p.offset2>>)
            \o << <<"mix", 0>> >>
Shape(p) ==
    << <<"band", 0>>, <<"tremolo", p.wave>> >>
    \o (IF p.wave2 > 0 /\ p.type2 = "none"
        THEN If(p.offset2 > 0, <<"trim", p.offset2>>) \o << <<"tremolo", p.wave2>> >>
        ELSE <<>>)
    \o << <<"reverb", 0>> >>
Finish(p) == << <<"gain", 0>> >> \o If(p.fade > 0, <<"fade", p.fade>>)

(* bodySoxArgs, noiseArgs, soxPipeArgs: an ffmpeg stream is not repeated. *)
Body(p) ==
    IF p.type = "ffmpeg" THEN Shape(p)
    ELSE Synth(p) \o Shape(p) \o << <<"repeat", Repeats(BufferLen(p))>> >>
Floor(p) ==
    If(p.floor = "sox", <<"synth", FloorLen(p) + p.floorOffset>>)
    \o << <<"gain", 0>>, <<"band", 0>> >>
    \o (IF p.floorWave > 0
        THEN << <<"tremolo", p.floorWave>> >> \o If(p.floorOffset > 0, <<"trim", p.floorOffset>>)
        ELSE <<>>)
    \o << <<"reverb", 0>> >> \o If(p.floor = "sox", <<"repeat", Repeats(FloorLen(p))>>)

(* Mutated form: the fade stands before the repeat. *)
ChainsFadingFirst(p) ==
    IF p.floor = "none" THEN << If(p.fade > 0, <<"fade", p.fade>>) \o Body(p) >>
    ELSE << Body(p), Floor(p), If(p.fade > 0, <<"fade", p.fade>>) >>

(* One chain per process: body, floor and mixer, or the player's alone. *)
Chains(p) ==
    IF p.floor = "none" THEN << Body(p) \o Finish(p) >>
    ELSE << Body(p) \o << <<"gain", 0>> >>, Floor(p), If(p.fade > 0, <<"fade", p.fade>>) >>

-----------------------------------------------------------------------------
CONSTANT Presets
VARIABLES in, out   \* a preset, and the chains made of it

Init == in \in Presets /\ out = <<>>
Evaluate ==
    /\ out = <<>>
    /\ out' = IF Refused(in) THEN << <<>> >> ELSE Chains(Normalize(in))
    /\ UNCHANGED in
Next == Evaluate
Spec == Init /\ [][Next]_<<in, out>>

(* Reference: what `repeat` replays is the stream before it, the synthesis *)
(* less the head that a trim cuts off; no chain has two.                   *)
Positions(c, fx) == {i \in DOMAIN c : c[i][1] = fx}
Before(c, fx) == {i \in Positions(c, fx) : \A r \in Positions(c, "repeat") : i < r}
Cut(c) == IF Positions(c, "trim") = {} THEN 0 ELSE c[Max(Positions(c, "trim"))][2]
LoopLen(c) == c[1][2] - Cut(c)
Swells(c) == {c[i][2] : i \in Before(c, "tremolo")}
CommonLoop(periods) ==
    \E t \in MinBuffer .. MaxBuffer : \A period \in periods : t % period = 0

(* A repeated chain loops without a seam (noise.go:506, 527): its loop is  *)
(* a whole number of every swell if any loop in the limits is, of the slow *)
(* one at least, of the fast one if the slow one is longer than the limit. *)
(* Its replays reach the safety cap, and the fade happens once, after them.*)
LoopsSeamlessly ==
    \A k \in DOMAIN out :
        LET c == out[k]
            len == LoopLen(c)
            r == c[Max(Positions(c, "repeat"))]
        IN Positions(c, "repeat") # {} =>
             /\ \A i, j \in Positions(c, "trim") : i = j
             /\ len >= MinBuffer /\ (r[2] + 1) * len >= SafetyCap
             /\ Before(c, "fade") = {}
             /\ Swells(c) # {} => \E p \in Swells(c) : len % p = 0
             /\ CommonLoop(Swells(c)) => \A p \in Swells(c) : len % p = 0
             /\ \A p \in Swells(c) :
                   p <= MaxBuffer /\ (\A q \in Swells(c) : q <= p) => len % p = 0
=============================================================================
