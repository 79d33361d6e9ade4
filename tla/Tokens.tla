------------------------------- MODULE Tokens -------------------------------
(***************************************************************************)
(* Tokens that expire: the CSRF tokens of sec.CSRFGate (sec/sec.go) and    *)
(* the one-time passwords of auth/otp (HOTP by a counter, TOTP by a        *)
(* clock).  Encryption and hashing are external: what was encrypted reads  *)
(* back, and passwords of different counters differ.                       *)
(***************************************************************************)
EXTENDS Integers, FiniteSets

CONSTANTS
    Tokenlife,  \* of the gate's configuration
    Interval,   \* of TOTP
    Window,     \* how far HOTP and TOTP look
    MaxUint,    \* the counter's largest value
    MaxTime,    \* bound: the clock
    MaxShown,   \* bound: passwords the device shows; fewer than there are counters
    Browsers    \* random tokens: one per new cookie

VARIABLES
    now,
    cookie,     \* the random token in the browser's cookie; None is none that decrypts
    fresh,      \* random tokens not yet made
    tokens,     \* tokens in forms: the time, the random token and the rolling token
    counter,    \* HOTP's next counter
    shown,      \* counters whose passwords the user's device has shown
    used,       \* counters whose passwords were accepted
    verdict     \* the last verification

vars == <<now, cookie, fresh, tokens, counter, shown, used, verdict>>

None == "none"
NoVerdict == [of |-> "none", valid |-> FALSE]

\* The counter begins anywhere, near its end too.
Init ==
    /\ now = Tokenlife /\ cookie = None /\ fresh = Browsers /\ tokens = {}
    /\ counter \in {0, MaxUint} /\ shown = {counter} /\ used = {}
    /\ verdict = NoVerdict

Tick ==
    /\ now < MaxTime
    /\ now' = now + 1 /\ verdict' = NoVerdict
    /\ UNCHANGED <<cookie, fresh, tokens, counter, shown, used>>

-----------------------------------------------------------------------------
(* sec.CSRFGate                                                            *)

\* The rolling token is the hash of the current period.
CurrentToken(t) == t \div Tokenlife
PrevToken(t) == t \div Tokenlife - 1

CSRFToken ==
    /\ IF cookie # None THEN UNCHANGED <<cookie, fresh>>
       ELSE \E rand \in fresh : cookie' = rand /\ fresh' = fresh \ {rand}
    /\ tokens' = tokens \cup {[created |-> now, rand |-> cookie', rolling |-> CurrentToken(now)]}
    /\ verdict' = NoVerdict
    /\ UNCHANGED <<now, counter, shown, used>>

\* The browser forgets its cookie, or has one that does not decrypt.
LoseCookie ==
    /\ cookie' = None /\ verdict' = NoVerdict
    /\ UNCHANGED <<now, fresh, tokens, counter, shown, used>>

Expired(token) == token.created + Tokenlife < now \/ token.created > now

\* A mutant: the token of the period before is refused.
VerifyCurrentOnly(token) ==
    /\ ~Expired(token)
    /\ cookie = token.rand
    /\ token.rolling = CurrentToken(now)

VerifyCSRFToken(token) ==
    /\ ~Expired(token)
    /\ cookie = token.rand
    /\ token.rolling \in {CurrentToken(now), PrevToken(now)}

SubmitForm ==
    /\ \E token \in tokens :
          verdict' = [of |-> "form", valid |-> VerifyCSRFToken(token), token |-> token]
    /\ UNCHANGED <<now, cookie, fresh, tokens, counter, shown, used>>

-----------------------------------------------------------------------------
(* HOTP and TOTP                                                           *)

Plus(c, n) == (c + n) % (MaxUint + 1)

\* The device shows the next password; some are never sent.
NextPassword ==
    /\ Cardinality(shown) < MaxShown
    /\ \E c \in shown : Plus(c, 1) \notin shown /\ shown' = shown \cup {Plus(c, 1)}
    /\ verdict' = NoVerdict
    /\ UNCHANGED <<now, cookie, fresh, tokens, counter, used>>

\* verifyOTP: how far ahead the password's counter is, or -1.
VerifyOTP(password, from, window) ==
    LET ahead == {i \in 0..window : Plus(from, i) = password}
    IN  IF ahead = {} THEN -1 ELSE CHOOSE i \in ahead : \A j \in ahead : i <= j

\* A mutant: the counter goes to the password that was accepted.
VerifyStays(password) ==
    LET count == VerifyOTP(password, counter, Window)
    IN  IF count # -1
        THEN /\ counter' = Plus(counter, count)
             /\ used' = used \cup {password}
             /\ verdict' = [of |-> "hotp", valid |-> TRUE, again |-> password \in used]
        ELSE /\ UNCHANGED <<counter, used>>
             /\ verdict' = [of |-> "hotp", valid |-> FALSE, again |-> FALSE]

Verify(password) ==
    LET count == VerifyOTP(password, counter, Window)
    IN  IF count # -1
        THEN /\ counter' = Plus(counter, count + 1)
             /\ used' = used \cup {password}
             /\ verdict' = [of |-> "hotp", valid |-> TRUE, again |-> password \in used]
        ELSE /\ UNCHANGED <<counter, used>>
             /\ verdict' = [of |-> "hotp", valid |-> FALSE, again |-> FALSE]

SendPassword ==
    /\ \E password \in shown : Verify(password)
    /\ UNCHANGED <<now, cookie, fresh, tokens, shown>>

\* TOTP.Verify looks at the counter of the clock, then one after and one before, and on.
VerifyTime(password) ==
    LET c == now \div Interval
    IN  \/ VerifyOTP(password, c, 0) # -1
        \/ \E i \in 0..(Window - 1) : VerifyOTP(password, c + i + 1, 0) # -1 \/ VerifyOTP(password, c - i - 1, 0) # -1

\* A device whose clock is off by some time.
SendTimePassword ==
    /\ \E time \in 0..MaxTime :
          verdict' = [of |-> "totp", valid |-> VerifyTime(time \div Interval), time |-> time]
    /\ UNCHANGED <<now, cookie, fresh, tokens, counter, shown, used>>

Gate == Tick \/ CSRFToken \/ LoseCookie \/ SubmitForm
Passwords == Tick \/ NextPassword \/ SendPassword \/ SendTimePassword

Next == Gate \/ Passwords

Spec == Init /\ [][Next]_vars

-----------------------------------------------------------------------------
(* A token in a form is valid for its whole life, across the end of a      *)
(* period of the rolling token, and for the browser it was made for only   *)
(* (sec.go:84-243).                                                        *)
TokensLiveTheirLife ==
    verdict.of = "form" =>
        (verdict.valid <=> now - verdict.token.created <= Tokenlife /\ cookie = verdict.token.rand)

(* No password of a counter is accepted twice (otp.go:167-173).            *)
PasswordsCountOnce == verdict.of = "hotp" => ~verdict.again

(* A time's password is accepted as long as the device's clock is off by   *)
(* at most Window intervals, and never when it is off by one interval more *)
(* than that (otp.go:275-291).                                             *)
ClocksMayDiffer ==
    verdict.of = "totp" =>
        LET off == IF verdict.time < now THEN now - verdict.time ELSE verdict.time - now
        IN  /\ off <= Window * Interval => verdict.valid
            /\ off >= (Window + 1) * Interval => ~verdict.valid

TokensAccepted == TokensLiveTheirLife /\ PasswordsCountOnce /\ ClocksMayDiffer
=============================================================================
