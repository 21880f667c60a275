----------------------------- MODULE PacketCodec -----------------------------
(***************************************************************************)
(* One direction of the encrypted record layer (protocol/packet.rs): the   *)
(* sending PacketCodec numbers its records, the receiving one filters them *)
(* through ReplayWindow, and the network between them loses, repeats and   *)
(* reorders.  A word of the window is the set of the positions of its one  *)
(* bits, so that | is \cup and a shift moves positions.                    *)
(*                                                                         *)
(* Encryption itself is assumed to work: the receiver authenticates only   *)
(* what holders of the session key encrypted.  The nonce is a bijection of *)
(* the counter (prp_nonce, a Feistel permutation), so the counter stands   *)
(* for it.                                                                 *)
(*                                                                         *)
(* An operator named Bug... is no part of the specification: it is the     *)
(* definition after it with one plausible programming error.               *)
(***************************************************************************)
EXTENDS Naturals

CONSTANTS
    WordBits,       \* bits of a word of the window: 64
    Words,          \* REPLAY_WORDS: 32
    CounterLimit    \* the first counter encrypt refuses: u64::MAX - 1000

ASSUME WindowAssumption == WordBits \in Nat \ {0} /\ Words \in Nat \ {0}
ASSUME LimitAssumption == CounterLimit \in Nat

VARIABLES
    counter,      \* the sender's next counter
    wire,         \* counters of the records sent so far
    window,       \* the receiver's ReplayWindow
    deliveries    \* history: how often each record's plaintext was returned

codecVars == <<counter, wire, window, deliveries>>

WindowSize == Words * WordBits      \* REPLAY_WINDOW_SIZE
WordIndex == 0..(Words - 1)
Positions == 0..(WordBits - 1)
Counters == 0..(CounterLimit - 1)
Paddings == {"valid", "malformed"}

-----------------------------------------------------------------------------
(* ReplayWindow.                                                           *)

NoBits == [i \in WordIndex |-> {}]

GetBit(bits, distance) == (distance % WordBits) \in bits[distance \div WordBits]
SetBit(bits, distance) ==
    [bits EXCEPT ![distance \div WordBits] = @ \cup {distance % WordBits}]

\* word << off and word >> off on a word of WordBits bits.
ShiftLeft(word, off) == {b \in Positions : b >= off /\ (b - off) \in word}
ShiftRight(word, off) == {b \in Positions : (b + off) \in word}

\* The new word i of shift.
BugNoCarry(bits, n, i) ==
    LET words == n \div WordBits
        off == n % WordBits
    IN  IF i >= words THEN ShiftLeft(bits[i - words], off) ELSE {}
ShiftedWord(bits, n, i) ==
    LET words == n \div WordBits
        off == n % WordBits
        lo == IF i >= words THEN ShiftLeft(bits[i - words], off) ELSE {}
        hi == IF off > 0 /\ i > words
              THEN ShiftRight(bits[i - words - 1], WordBits - off) ELSE {}
    IN  lo \cup hi

Shift(bits, n) == [i \in WordIndex |-> ShiftedWord(bits, n, i)]

\* The loop of shift, in place and from the last word down.
BugLoopAscending(bits, n) ==
    LET after[k \in 0..Words] ==
            IF k = 0 THEN bits
            ELSE [after[k - 1] EXCEPT ![k - 1] = ShiftedWord(after[k - 1], n, k - 1)]
    IN  after[Words]
ShiftLoop(bits, n) ==
    LET after[k \in 0..Words] ==
            IF k = 0 THEN bits
            ELSE [after[k - 1] EXCEPT
                    ![Words - k] = ShiftedWord(after[k - 1], n, Words - k)]
    IN  after[Words]

\* The verdict of check_and_record, and the window it leaves after accepting.
BugNoDuplicateCheck(w, seq) ==
    \/ ~w.initialized
    \/ seq > w.highest
    \/ seq <= w.highest /\ w.highest - seq < WindowSize
Accepts(w, seq) ==
    \/ ~w.initialized
    \/ seq > w.highest
    \/ /\ seq <= w.highest
       /\ w.highest - seq < WindowSize
       /\ ~GetBit(w.bits, w.highest - seq)

Advanced(w, seq) ==
    IF seq - w.highest >= WindowSize THEN NoBits ELSE Shift(w.bits, seq - w.highest)

Recorded(w, seq) ==
    CASE ~w.initialized ->
            [highest |-> seq, bits |-> SetBit(NoBits, 0), initialized |-> TRUE]
      [] w.initialized /\ seq > w.highest ->
            [w EXCEPT !.highest = seq, !.bits = SetBit(Advanced(w, seq), 0)]
      [] OTHER -> [w EXCEPT !.bits = SetBit(@, w.highest - seq)]

-----------------------------------------------------------------------------
Init ==
    /\ counter = 0
    /\ wire = {}
    /\ window = [highest |-> 0, bits |-> NoBits, initialized |-> FALSE]
    /\ deliveries = [c \in Counters |-> 0]

\* encrypt_packet_into: a record, or a failing cipher that costs a counter.
\* Exhausted counters and oversized packets change nothing.
EncryptPacket(fails) ==
    /\ counter < CounterLimit
    /\ counter' = counter + 1
    /\ wire' = IF fails THEN wire ELSE wire \cup {counter}
    /\ UNCHANGED <<window, deliveries>>

\* decrypt_packet_in_place on an authentic record: padding is validated before
\* the counter is recorded, so a malformed record that authenticates under the
\* same counter (a peer's bug) changes nothing.
BugRecordBeforeValidation(c, padding) ==
    /\ c \in wire
    /\ Accepts(window, c)
    /\ window' = Recorded(window, c)
    /\ deliveries' = [deliveries EXCEPT ![c] = IF padding = "valid" THEN @ + 1 ELSE @]
    /\ UNCHANGED <<counter, wire>>
DecryptPacket(c, padding) ==
    /\ padding = "valid"
    /\ c \in wire
    /\ Accepts(window, c)
    /\ window' = Recorded(window, c)
    /\ deliveries' = [deliveries EXCEPT ![c] = @ + 1]
    /\ UNCHANGED <<counter, wire>>

Next ==
    \/ \E fails \in BOOLEAN : EncryptPacket(fails)
    \/ \E c \in Counters, padding \in Paddings : DecryptPacket(c, padding)

Spec == Init /\ [][Next]_codecVars

-----------------------------------------------------------------------------
(* Properties.                                                             *)

Delivered(c) == deliveries[c] > 0

ReplayWindow == [highest : Nat, bits : [WordIndex -> SUBSET Positions],
                 initialized : BOOLEAN]

\* The fields of the two codecs have their types.
TypeOK ==
    /\ counter \in Nat
    /\ counter <= CounterLimit
    /\ wire \subseteq Counters
    /\ window \in ReplayWindow
    /\ deliveries \in [Counters -> Nat]

\* The sender never reaches a counter it has used, the window is empty before
\* the first record, and its top is a record that was delivered.
CountersAreFresh ==
    /\ \A c \in wire : c < counter
    /\ \A c \in Counters : Delivered(c) => c \in wire /\ window.initialized
                                           /\ c <= window.highest
    /\ window.initialized => window.highest \in Counters /\ Delivered(window.highest)

\* The bit array is an exact memory: the bit at a distance says whether the
\* record at that distance below the highest one was delivered.  It survives
\* every carry between words, the jump past the whole window, and a record that
\* authenticates but is malformed.
WindowIsExact ==
    window.initialized =>
        \A i \in WordIndex, b \in Positions :
            b \in window.bits[i] <=>
                /\ i * WordBits + b <= window.highest
                /\ Delivered(window.highest - (i * WordBits + b))

\* Reordering within the window is never mistaken for a replay: every record
\* that has not been delivered and is less than WindowSize behind is accepted.
NoFalseReplay ==
    \A c \in wire :
        /\ ~Delivered(c)
        /\ window.initialized => c + WindowSize > window.highest
        => Accepts(window, c)

\* Shifting in place from the last word down reads every word before it is
\* overwritten: the loop computes the word-wise shift.
ShiftLoopIsShift ==
    \A n \in 1..(WindowSize - 1) :
        ShiftLoop(window.bits, n) = Shift(window.bits, n)

\* The codec pair keeps the promise of the record layer: no counter (hence no
\* nonce) for two records, no record delivered twice.
Delivery == INSTANCE RecordDelivery WITH sent <- wire
DeliversOnce == Delivery!Spec

=============================================================================
