------------------------------- MODULE AdBanks -------------------------------
(***************************************************************************)
(* dqm-adbanks.js: what the Scope tab makes of one event of the shared     *)
(* buffer.  An event has an id and may have three banks: AD, the hits with *)
(* their waveforms; AT, the hits the frontend says it clustered; AC, those *)
(* the collector says it built the event from.  Another frontend's events  *)
(* come by too, and a bank may be of another layout than is expected here. *)
(*                                                                         *)
(* A bank is its length in bytes and the fields that are read from it: a   *)
(* hit's slots are all the samples it has room for, of which data_size are *)
(* the record.  Voltages are whole numbers; the sample period, a common    *)
(* factor of every charge, is left out.                                    *)
(***************************************************************************)
EXTENDS Integers, Sequences, FiniteSetsExt

CONSTANTS
  AD_HIT_BYTES, AT_RECORD_BYTES, AC_RECORD_BYTES,
  AD_MAX_SAMPLES,       \* slots of a hit
  CHANNELS_PER_BOARD,
  Absent,               \* a bank the event does not have; an id that is not set
  NotOurs, Broken       \* fromEvent() gave null; it threw

ASSUME LayoutAssumption ==
  AD_HIT_BYTES \in Nat \ {0} /\ AD_MAX_SAMPLES \in Nat /\ CHANNELS_PER_BOARD \in Nat

\* What a frontend may write: banks of any length, with the hits there is room for,
\* and a data_size that says anything.
HitRecord == [board : Nat, channel : Nat, data_size : Int, baseline : Int,
              slots : [1 .. AD_MAX_SAMPLES -> Int]]

Count == [bytes : Nat, hits : Nat]

IsEvent(event) ==
  /\ event.banks.AD # Absent =>
       /\ event.banks.AD.bytes \in Nat
       /\ \A k \in 1 .. event.banks.AD.bytes \div AD_HIT_BYTES :
            event.banks.AD.records[k] \in HitRecord
  /\ event.banks.AT \in Count \union {Absent} /\ event.banks.AC \in Count \union {Absent}

\* What decodeEvent() may give.
Decoded == [hits : Seq([channel : Nat, waveform : Seq(Int), baseline : Int]),
            timing : Nat \union {Absent}, collector : Nat \union {Absent},
            channels : SUBSET Nat]

ASSUME OutcomesAssumption == NotOurs # Broken /\ NotOurs \notin Decoded /\ Absent \notin Nat

\* Slip: every slot is taken for a sample.
WholeSlots(rec) == rec.slots

\* hit.waveform: the slots up to data_size, which may be any integer.
Waveform(rec) ==
  SubSeq(rec.slots, 1, Max({0, Min({rec.data_size, AD_MAX_SAMPLES})}))

\* hit.global_channel: `channel` counts on one board.
GlobalChannel(rec) == rec.board * CHANNELS_PER_BOARD + rec.channel

\* decodeHit()
DecodeHit(rec) ==
  [channel |-> GlobalChannel(rec), waveform |-> Waveform(rec), baseline |-> rec.baseline]

\* decodeAD(): hits back to back; a remainder is another layout.
DecodeAD(bank) ==
  IF bank.bytes % AD_HIT_BYTES # 0
    THEN Broken
    ELSE [k \in 1 .. bank.bytes \div AD_HIT_BYTES |-> DecodeHit(bank.records[k])]

\* decodeAT() takes a longer record, decodeAC() only one of its own length.
DecodeAT(bank) == IF bank.bytes < AT_RECORD_BYTES THEN Broken ELSE bank.hits

DecodeAC(bank) == IF bank.bytes # AC_RECORD_BYTES THEN Broken ELSE bank.hits

\* decodeEvent(): any bank that throws is the end of the event.
DecodeEvent(banks) ==
  LET hits == IF banks.AD = Absent THEN << >> ELSE DecodeAD(banks.AD)
      timing == IF banks.AT = Absent THEN Absent ELSE DecodeAT(banks.AT)
      collector == IF banks.AC = Absent THEN Absent ELSE DecodeAC(banks.AC)
  IN IF Broken \in {timing, collector} \/ hits = Broken
       THEN Broken
       ELSE [hits |-> hits, timing |-> timing, collector |-> collector,
             channels |-> {hits[k].channel : k \in DOMAIN hits}]

\* fromEvent(): an event of another id is not looked into; one without AD is
\* somebody else's, though only after the banks it has were decoded.
FromEvent(event, wanted) ==
  IF wanted # Absent /\ wanted >= 0 /\ event.id # wanted THEN NotOurs
  ELSE IF DecodeEvent(event.banks) = Broken THEN Broken
  ELSE IF event.banks.AD = Absent THEN NotOurs
  ELSE DecodeEvent(event.banks)

\* chargeOf(): the record's area below its baseline.
ChargeOf(hit) ==
  SumFunction([k \in DOMAIN hit.waveform |-> hit.baseline - hit.waveform[k]])
=============================================================================
