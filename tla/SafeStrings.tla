---------------------------- MODULE SafeStrings ----------------------------
(***************************************************************************)
(* src/extras/safe_string.cpp, mcr/extras/safe_string.h and what they      *)
(* expect of src/extras/ssl: a text that is encrypted in memory, with the  *)
(* key of a provider, an initialization vector and, unless it is           *)
(* stateless, a tag. A string is followed from its construction through    *)
(* its copies to its destruction. How many bytes a text takes is not       *)
(* modelled. Providers may have no key to give and encryption may fail:    *)
(* functions throw then, and leave what they have done so far.             *)
(***************************************************************************)
CONSTANTS
  Phrases,    \* texts
  Blank,      \* the empty text, one of them
  Garbled,    \* what is read with the wrong key, vector or tag
  Providers,  \* of keys
  NoProvider,
  Vectors,    \* initialization vectors
  ZeroVector  \* the one of a text that is not encrypted

ASSUME SafeAssumption == Blank \in Phrases

VARIABLES
  safe,    \* the fields of the string
  phrase,  \* the text that its caller has given it
  upset    \* a call has thrown when it had changed something

safeVars == << safe, phrase, upset >>

NoCipher == [of |-> Blank, key |-> NoProvider, iv |-> ZeroVector, stateless |-> FALSE]
NoString ==
  [made |-> FALSE, cryptic |-> FALSE, provider |-> NoProvider, iv |-> ZeroVector, tag |-> FALSE,
   stateless |-> FALSE, cipher |-> NoCipher, plain |-> Blank]

-----------------------------------------------------------------------------
(* What a call comes to: the string and whether it returns. *)

Returned(s) == {[s |-> s, ok |-> TRUE]}
Thrown(s) == {[s |-> s, ok |-> FALSE]}
Onward(outcomes, F(_)) == UNION {IF o.ok THEN F(o.s) ELSE {o} : o \in outcomes}

\* tag is TRUE if the tag is the one of the cipher.
Opens(s) ==
  /\ s.cipher.key = s.provider /\ s.cipher.iv = s.iv /\ s.cipher.stateless = s.stateless
  /\ s.tag \/ s.stateless
IsBlank(s) == s.cryptic /\ s.cipher = NoCipher
Shown(s) ==
  IF ~ s.cryptic THEN s.plain
  ELSE IF IsBlank(s) THEN Blank
  ELSE IF Opens(s) THEN s.cipher.of ELSE Garbled

Reading(s, F(_)) == F(Shown(s)) \union (IF s.cryptic /\ ~ IsBlank(s) THEN Thrown(s) ELSE {})

Cleared(s) == [s EXCEPT !.cipher = NoCipher, !.plain = Blank, !.tag = @ /\ ~ s.cryptic]

Encrypted(s, t) ==
  [s EXCEPT !.cipher = [of |-> t, key |-> s.provider, iv |-> s.iv, stateless |-> s.stateless],
            !.tag = ~ s.stateless]

\* What was encrypted before is overwritten, and still counts.
HalfEncrypted(s) == IF IsBlank(s) THEN s ELSE [s EXCEPT !.cipher.of = Garbled]

setText(s, t) ==
  CASE t = Blank     -> Returned(Cleared(s))
    [] t # Blank /\ ~ s.cryptic -> Returned([s EXCEPT !.plain = t])
    [] OTHER -> Thrown(s) \union
                (IF s.provider = NoProvider THEN {}
                 ELSE Returned(Encrypted(s, t)) \union Thrown(HalfEncrypted(s)))

\* Fault: the cipher is left to the new vector.
resetIvOnly(s) == IF s.cryptic THEN UNION {Returned([s EXCEPT !.iv = v]) : v \in Vectors}
                ELSE Returned([s EXCEPT !.iv = ZeroVector])

resetIv(s) ==
  IF s.cryptic
  THEN Reading(s, LAMBDA mem : UNION {setText([s EXCEPT !.iv = v], mem) : v \in Vectors})
  ELSE Returned([s EXCEPT !.iv = ZeroVector])

setIv(s, v) ==
  IF s.cryptic
  THEN Reading(s, LAMBDA mem : setText([s EXCEPT !.iv = v], mem))
  ELSE Returned([s EXCEPT !.iv = v])

setTextCryptic(s, t, cryptic) ==
  IF cryptic # s.cryptic /\ s.provider # NoProvider
  THEN Onward(resetIv([Cleared(s) EXCEPT !.cryptic = cryptic]), LAMBDA r : setText(r, t))
  ELSE setText(s, t)

setCryptic(s, cryptic) ==
  IF cryptic # s.cryptic /\ s.provider # NoProvider
  THEN Reading(s, LAMBDA mem : setTextCryptic(s, mem, cryptic))
  ELSE Returned(s)

setKeyProvider(s, p) ==
  IF p = s.provider THEN Returned(s)
  ELSE Reading(s, LAMBDA mem :
         Onward(IF p = NoProvider THEN setCryptic(Cleared(s), FALSE) ELSE Returned(Cleared(s)),
               LAMBDA r : Onward(resetIv([r EXCEPT !.provider = p]), LAMBDA q : setText(q, mem))))

setStateless(s, stateless) ==
  CASE stateless = s.stateless -> Returned(s)
    [] stateless # s.stateless /\ ~ s.cryptic -> Returned([s EXCEPT !.stateless = stateless])
    [] OTHER -> Reading(s, LAMBDA mem : setText([Cleared(s) EXCEPT !.stateless = stateless], mem))

-----------------------------------------------------------------------------
SafeInit == safe = NoString /\ phrase = Blank /\ upset = FALSE

\* Constructors: no string is left when they throw.
Starts(s, t) ==
  \E o \in Onward(resetIv([s EXCEPT !.made = TRUE]), LAMBDA r : setText(r, t)) :
    IF o.ok THEN safe' = o.s /\ phrase' = t /\ upset' = FALSE
    ELSE UNCHANGED safeVars

SafeConstruct == \E p \in Providers \union {NoProvider}, t \in Phrases, cryptic \in BOOLEAN :
  /\ ~ safe.made
  /\ Starts([NoString EXCEPT !.cryptic = cryptic /\ p # NoProvider, !.provider = p], t)

\* Its copy goes on in the place of the string.
SafeCopy ==
  /\ safe.made /\ ~ upset
  /\ Starts([NoString EXCEPT !.cryptic = safe.cryptic, !.provider = safe.provider,
                              !.stateless = safe.stateless], Shown(safe))

SafeDestruct == safe.made /\ safe' = NoString /\ phrase' = Blank /\ upset' = FALSE

\* A text is given, and replaces what an exception left.
Gives(outcomes, t) == \E o \in outcomes :
  /\ safe.made
  /\ safe' = o.s
  /\ phrase' = IF o.ok THEN t ELSE phrase
  /\ upset' = (~ o.ok /\ (upset \/ o.s # safe))

\* The string is changed otherwise.
Keeps(outcomes) == ~ upset /\ Gives(outcomes, phrase)

SafeNext ==
  \/ SafeConstruct \/ SafeCopy \/ SafeDestruct
  \/ \E t \in Phrases : Gives(setText(safe, t), t)
  \/ \E t \in Phrases, cryptic \in BOOLEAN : Gives(setTextCryptic(safe, t, cryptic), t)
  \/ \E cryptic \in BOOLEAN : Keeps(setCryptic(safe, cryptic))
  \/ \E p \in Providers \union {NoProvider} : Keeps(setKeyProvider(safe, p))
  \/ \E v \in Vectors : Keeps(setIv(safe, v))
  \/ Keeps(resetIv(safe))
  \/ \E stateless \in BOOLEAN : Keeps(setStateless(safe, stateless))

SafeSpec == SafeInit /\ [][SafeNext]_safeVars

-----------------------------------------------------------------------------
SafeTypeOK ==
  /\ safe \in
       [made : BOOLEAN, cryptic : BOOLEAN, provider : Providers \union {NoProvider},
        iv : Vectors \union {ZeroVector}, tag : BOOLEAN, stateless : BOOLEAN,
        cipher : [of : Phrases \union {Garbled}, key : Providers \union {NoProvider},
                  iv : Vectors \union {ZeroVector}, stateless : BOOLEAN],
        plain : Phrases]
  /\ phrase \in Phrases /\ upset \in BOOLEAN

\* "Current text will be preserved" (safe_string.h): whatever is changed of the encryption,
\* in whatever order, the text read is the one given last, until a call has thrown half way.
\* And a text is encrypted only as long as there is a provider of keys.
HoldsSafe ==
  safe.made =>
    /\ safe.cryptic => safe.provider # NoProvider
    /\ ~ upset => Shown(safe) = phrase
=============================================================================
