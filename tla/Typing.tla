------------------------------- MODULE Typing -------------------------------
(***************************************************************************)
(* The characters of src/extras/extras.cpp, each a sequence of signals     *)
(* that types it, and what types texts with them (StringKey in             *)
(* src/extras/string_key.cpp) in the threads of macros, while the owner    *)
(* sets and removes characters. Nothing of this has a lock. Delays have no *)
(* length, and no receiver blocks a key.                                   *)
(***************************************************************************)
EXTENDS Integers, Sequences, SequencesExt

CONSTANTS
  Typists,     \* threads
  LastChar,    \* characters are 0..LastChar
  TypeKeys,    \* keys
  ShiftKey,    \* the key of the modifier MCR_SHIFT
  KeyVals,     \* the keys that the platform gives to the first characters,
  Shifted,     \* and which of them need the shift key
  Lists,       \* signals that an application gives to a character
  TypedTexts,
  TypingBudget \* bound on what the typists and the owner begin

Chars == 0..LastChar
Stroke(apply, key) == [apply |-> apply, key |-> key]
Pause == Stroke("none", 0)  \* a NoOp
Strokes == {Stroke(apply, k) : apply \in {"set", "unset"}, k \in TypeKeys \union {ShiftKey}} \union {Pause}

\* What is pressed is released again.
Released(signals) ==
  \A i \in DOMAIN signals : signals[i].apply = "set" =>
    \E j \in i + 1..Len(signals) : signals[j] = Stroke("unset", signals[i].key)

\* Texts are of characters, and applications give signals that leave no key down.
ASSUME TypingAssumption ==
  /\ LastChar \in Nat /\ TypingBudget \in Nat
  /\ KeyVals \in Seq(TypeKeys) /\ Len(KeyVals) <= LastChar + 1
  /\ TypedTexts \subseteq Seq(Chars)
  /\ \A signals \in Lists : signals \in Seq(Strokes) /\ Released(signals)

VARIABLES
  characters,  \* the signals of every character
  keysDown,     \* the keys that are down
  typing,      \* what every typist does
  typed,       \* how much was begun
  \* history
  meant,       \* what was asked for each character last
  stuck        \* keys left down by calls that ended before their release

typingVars == << characters, keysDown, typing, typed, meant, stuck >>

-----------------------------------------------------------------------------
(* The characters *)

Signals(c) == characters[c + 1]

\* characterRef makes the characters up to the one that it is asked for.
Ensured(chars, c) == chars \o [i \in 1..c + 1 - Len(chars) |-> << >>]

\* Fault: the shift key changes nothing but the length.
OneGear(shiftFlag) == 1

\* The key goes down in the first signals that are no delays, and up in the others.
Gears(shiftFlag) == IF shiftFlag THEN 2 ELSE 1

\* setCharacterKey
KeySignals(key, shiftFlag) ==
  LET at(i) == IF i % 2 = 1 THEN Pause
               ELSE Stroke(IF i \div 2 < Gears(shiftFlag) THEN "set" ELSE "unset",
                           IF shiftFlag /\ i \in {0, 6} THEN ShiftKey ELSE key)
  IN [i \in 1..(IF shiftFlag THEN 7 ELSE 3) |-> at(i - 1)]

\* Up to the last one that has signals.
Trimmed(chars) ==
  LET last == SelectLastInSeq(chars, LAMBDA s : s # << >>) IN SubSeq(chars, 1, last)

-----------------------------------------------------------------------------
(* What a key looks like to who types it. *)

KeyMeant(key, shiftFlag) ==
  LET down(k) == Stroke("set", k)
      up(k) == Stroke("unset", k)
  IN IF shiftFlag
     THEN << down(ShiftKey), Pause, down(key), Pause, up(key), Pause, up(ShiftKey) >>
     ELSE << down(key), Pause, up(key) >>

NotTyping == [at |-> "idle"]
Typing(t) == typing[t].at # "idle"
Sending(t) == typing[t].at = "send"

\* localAddKeys
TypingInit ==
  /\ characters = [i \in 1..Len(KeyVals) |-> KeySignals(KeyVals[i], i - 1 \in Shifted)]
  /\ meant = [c \in Chars |-> IF c < Len(KeyVals) THEN KeyMeant(KeyVals[c + 1], c \in Shifted) ELSE << >>]
  /\ keysDown = {} /\ stuck = {}
  /\ typing = [t \in Typists |-> NotTyping]
  /\ typed = 0

-----------------------------------------------------------------------------
(* StringKey::send *)

Types(t) == \E text \in TypedTexts :
  /\ ~ Typing(t) /\ typed < TypingBudget
  /\ typed' = typed + 1
  /\ typing' = [typing EXCEPT ![t] = [at |-> "next", text |-> text, total |-> Len(characters)]]
  /\ UNCHANGED << characters, keysDown, meant, stuck >>

\* Characters behind those that there were at first are left out.
Skips(t) ==
  /\ typing[t].at = "next" /\ typing[t].text # << >>
  /\ Head(typing[t].text) >= typing[t].total
  /\ typing' = [typing EXCEPT ![t].text = Tail(@)]
  /\ UNCHANGED << characters, keysDown, typed, meant, stuck >>

\* characterData and characterCount: the signals are not copied. What the typist
\* has down, what it has sent of the character, and whether this has changed
\* since, are history.
Reads(t) ==
  /\ typing[t].at = "next" /\ typing[t].text # << >>
  /\ LET c == Head(typing[t].text)
     IN /\ c < typing[t].total
        /\ characters' = Ensured(characters, c)
        /\ typing' = [typing EXCEPT ![t] =
                       [at |-> "send", text |-> Tail(@.text), total |-> @.total, c |-> c, j |-> 0,
                        count |-> Len(characters'[c + 1]), down |-> {}, sent |-> << >>, torn |-> FALSE]]
  /\ UNCHANGED << keysDown, typed, meant, stuck >>

\* A character that was changed meanwhile may be read as anything.
Readable(t) == IF typing[t].torn THEN Strokes ELSE {Signals(typing[t].c)[typing[t].j + 1]}

Sends(t) ==
  /\ Sending(t) /\ typing[t].j < typing[t].count
  /\ \E s \in Readable(t) :
       LET after(keys) == IF s.apply = "set" THEN keys \union {s.key}
                          ELSE IF s.apply = "unset" THEN keys \ {s.key} ELSE keys
       IN /\ keysDown' = after(keysDown)
          /\ typing' = [typing EXCEPT ![t].j = @ + 1, ![t].down = after(@),
                                          ![t].sent = IF typing[t].torn THEN @ ELSE Append(@, s)]
  /\ UNCHANGED << characters, typed, meant, stuck >>

\* mcr_send fails, and the call ends with the keys that are down.
Throws(t) ==
  /\ Sending(t) /\ typing[t].j < typing[t].count
  /\ stuck' = stuck \union typing[t].down
  /\ typing' = [typing EXCEPT ![t] = NotTyping]
  /\ UNCHANGED << characters, keysDown, typed, meant >>

\* After the interval the next character follows.
Follows(t) ==
  /\ Sending(t) /\ typing[t].j = typing[t].count
  /\ stuck' = stuck \union typing[t].down
  /\ typing' = [typing EXCEPT ![t] = [at |-> "next", text |-> @.text, total |-> @.total]]
  /\ UNCHANGED << characters, keysDown, typed, meant >>

Ends(t) ==
  /\ typing[t].at = "next" /\ typing[t].text = << >>
  /\ typing' = [typing EXCEPT ![t] = NotTyping]
  /\ UNCHANGED << characters, keysDown, typed, meant, stuck >>

-----------------------------------------------------------------------------
(* The owner *)

SignalsOf(chars, c) == IF c < Len(chars) THEN chars[c + 1] ELSE << >>

\* Whoever is within a character that changes reads on in what was there.
Edits(chars, meaning) ==
  /\ typed < TypingBudget /\ typed' = typed + 1
  /\ characters' = chars /\ meant' = meaning
  /\ typing' = [t \in Typists |->
                 IF Sending(t) /\ SignalsOf(chars, typing[t].c) # SignalsOf(characters, typing[t].c)
                 THEN [typing[t] EXCEPT !.torn = TRUE, !.sent = << >>] ELSE typing[t]]
  /\ UNCHANGED << keysDown, stuck >>

setCharacterKey == \E c \in Chars, key \in TypeKeys, shiftFlag \in BOOLEAN :
  Edits([Ensured(characters, c) EXCEPT ![c + 1] = KeySignals(key, shiftFlag)],
        [meant EXCEPT ![c] = KeyMeant(key, shiftFlag)])

setCharacter == \E c \in Chars, signals \in Lists :
  Edits([Ensured(characters, c) EXCEPT ![c + 1] = signals], [meant EXCEPT ![c] = signals])

removeCharacter == \E c \in Chars :
  Edits(IF c < Len(characters) THEN [characters EXCEPT ![c + 1] = << >>] ELSE characters,
        [meant EXCEPT ![c] = << >>])

trimCharacters == Edits(Trimmed(characters), meant)
clearCharacters == Edits(<< >>, [c \in Chars |-> << >>])

\* The bound is reached and every text is typed.
TypingDone == typed = TypingBudget /\ (\A t \in Typists : ~ Typing(t)) /\ UNCHANGED typingVars

TypingNext ==
  \/ \E t \in Typists : Types(t) \/ Skips(t) \/ Reads(t) \/ Sends(t) \/ Throws(t) \/ Follows(t) \/ Ends(t)
  \/ setCharacterKey \/ setCharacter \/ removeCharacter \/ trimCharacters \/ clearCharacters
  \/ TypingDone

TypingSpec == TypingInit /\ [][TypingNext]_typingVars

-----------------------------------------------------------------------------
(* Properties *)

TypingTypeOK ==
  /\ characters \in Seq(Seq(Strokes)) /\ Len(characters) <= LastChar + 1
  /\ keysDown \subseteq TypeKeys \union {ShiftKey} /\ stuck \subseteq TypeKeys \union {ShiftKey}
  /\ typed \in 0..TypingBudget

\* Whoever types at the same time, and whatever was done to the characters before, each is
\* sent as it was last asked for.
SentAsMeant ==
  \A t \in Typists : Sending(t) /\ ~ typing[t].torn =>
    /\ IsPrefix(typing[t].sent, meant[typing[t].c])
    /\ typing[t].j = typing[t].count => typing[t].sent = meant[typing[t].c]

\* No key stays down other than those that a call is still going to release, or that one left
\* that failed or met a change: a character that is sent to its end releases what it pressed.
NothingStuck ==
  /\ keysDown \subseteq stuck \union UNION {typing[t].down : t \in {u \in Typists : Sending(u)}}
  /\ \A t \in Typists :
       Sending(t) /\ ~ typing[t].torn /\ typing[t].j = typing[t].count => typing[t].down = {}

TypesCleanly == SentAsMeant /\ NothingStuck
=============================================================================
