------------------------------ MODULE Amounts -------------------------------
(***************************************************************************)
(* Money: what becomes of an amount that an admin types, in the portal     *)
(* (money.py: dollars_to_cents) and in the break-glass script (common.sh), *)
(* and what the pages make of the cents the gateway reports (money.py:     *)
(* percent_used; the rows of views/me.py and views/admin.py).              *)
(***************************************************************************)
EXTENDS Integers, Sequences, FiniteSets, SequencesExt

CONSTANTS
  Typed,         \* the characters that are typed
  MaxTyped,      \* bound: how many of them
  MaxDigits,     \* of an amount of cents that the gateway takes: 18
  MaxSpend,      \* bound, in half cents
  Caps           \* in cents

Digits == 0 .. 9
Dot == 10
Space == 11

ASSUME AmountsAssumption ==
  /\ MaxTyped \in Nat /\ MaxDigits \in Nat \ {0} /\ MaxSpend \in Nat
  /\ Typed \subseteq Nat /\ Caps \subseteq Nat

VARIABLES
  text,          \* the amount, one character after the other
  usage          \* what the gateway reports for one user and period

amountVars == <<text, usage>>

\* Not reported, an empty text, another that does not parse.
NoAmount == -1
Empty == -2
Garbage == -3

AmountInit ==
  /\ text = <<>>
  /\ usage \in [spend : {0, NoAmount, Empty, Garbage},
             cap : Caps \cup {NoAmount, Garbage}]

\* The admin types.
Type(c) ==
  /\ Len(text) < MaxTyped
  /\ text' = Append(text, c)
  /\ UNCHANGED usage

\* The gateway reports fractions of a cent; half a cent is the finest here.
Spend ==
  /\ usage.spend \in 0 .. MaxSpend - 1
  /\ usage' = [usage EXCEPT !.spend = @ + 1]
  /\ UNCHANGED text

AmountNext == Spend \/ \E c \in Typed : Type(c)
AmountSpec == AmountInit /\ [][AmountNext]_amountVars

-----------------------------------------------------------------------------
(* What is typed.                                                          *)

Refused == -1

\* The number that a text of digits stands for.
Number(s) ==
  LET n[i \in 0 .. Len(s)] == IF i = 0 THEN 0 ELSE 10 * n[i - 1] + s[i] IN n[Len(s)]

\* What is left between the first and the last character that is no blank.
Trimmed(s) ==
  LET ink == {i \in DOMAIN s : s[i] # Space}
      from(i) == \A j \in ink : i <= j
      to(i) == \A j \in ink : j <= i IN
  IF ink = {} THEN <<>>
  ELSE SubSeq(s, CHOOSE i \in ink : from(i), CHOOSE i \in ink : to(i))

\* A plain figure: digits with one dot at most.
Plain(s) == /\ \A i \in DOMAIN s : s[i] \in Digits \cup {Dot}
            /\ \A i, j \in DOMAIN s : s[i] = Dot /\ s[j] = Dot => i = j
            /\ \E i \in DOMAIN s : s[i] \in Digits

\* The text is parted at its first dot, or has its dot after its end.
dot(s) == CHOOSE i \in 1 .. Len(s) + 1 :
            /\ i <= Len(s) => s[i] = Dot
            /\ \A j \in 1 .. i - 1 : s[j] # Dot
Whole(s) == SubSeq(s, 1, dot(s) - 1)
Frac(s) == SubSeq(s, dot(s) + 1, Len(s))
Padded(f) == SubSeq(f \o <<0, 0>>, 1, 2)

\* Whether an amount of cents is one the gateway takes and a cap may be.
Takes(cents) == cents > 0 /\ cents < 10 ^ MaxDigits

\* Faulty: further decimal places are cut off.
dollars_to_cents_Truncates(typed) ==
  LET s == Trimmed(typed)
      cents == 100 * Number(Whole(s)) + Number(Padded(Frac(s))) IN
  IF Plain(s) /\ Takes(cents) THEN cents ELSE Refused

dollars_to_cents(typed) ==
  LET s == Trimmed(typed)
      cents == 100 * Number(Whole(s)) + Number(Padded(Frac(s))) IN
  IF Plain(s) /\ Len(Frac(s)) <= 2 /\ Takes(cents) THEN cents ELSE Refused

\* Dollars and cents, as they are shown.
cents_to_dollars(cents) ==
  LET numeral[n \in 0 .. cents] ==
        IF n < 10 THEN <<n>> ELSE Append(numeral[n \div 10], n % 10)
      two(n) == <<n \div 10, n % 10>> IN
  numeral[cents \div 100] \o <<Dot>> \o two(cents % 100)

\* printf '%d' takes a number with a leading zero for octal, as far as its
\* digits are; it complains of the others and the script goes on.
printf_d(s) ==
  LET octal == SelectInSeq(s, LAMBDA d : d > 7)
      end == IF octal = 0 THEN Len(s) ELSE octal - 1 IN
  IF s # <<>> /\ Head(s) = 0
  THEN FoldLeft(LAMBDA n, d : 8 * n + d, 0, SubSeq(s, 1, end))
  ELSE Number(s)

\* common.sh, the checks of set-spend-limit.sh before and after it, and the gateway's.
script_dollars_to_cents(s) ==
  LET cents == 100 * printf_d(Whole(s)) + Number(Padded(Frac(s))) IN
  IF Plain(s) /\ Len(Frac(s)) <= 2 /\ Takes(cents) THEN cents ELSE Refused

\* The reference reads a plain figure from left to right, in one pass: the
\* number that its digits make, of which some places are after the dot.
Figure(s) ==
  LET n[i \in 0 .. Len(s)] == IF i = 0 THEN 0
                              ELSE IF s[i] = Dot THEN n[i - 1] ELSE 10 * n[i - 1] + s[i] IN
  n[Len(s)]
Places(s) == Cardinality({j \in DOMAIN s : \E i \in DOMAIN s : s[i] = Dot /\ i < j})
Denotes(s, cents) == 100 * Figure(s) = cents * 10 ^ Places(s)

-----------------------------------------------------------------------------
(* What is shown.  Spend is in half cents, so that a cent is two.          *)

HalfUp(n, d) == (2 * n + d) \div (2 * d)

\* Faulty: danger is what is beyond the cap.
cls_PastCap(tenths) == IF tenths < 700 THEN "ok" ELSE IF tenths <= 1000 THEN "warn" ELSE "danger"

\* The class of the bar, which is drawn from the percentage as it is shown.
cls(tenths) == IF tenths < 700 THEN "ok" ELSE IF tenths < 900 THEN "warn" ELSE "danger"

\* The bar's width, which must not leave the page.
width(tenths) == HalfUp(IF tenths < 1000 THEN tenths ELSE 1000, 10)

\* In tenths of a percent; ">999%" is shown above 9990.
NoPercent == [sort |-> NoAmount, width |-> 0, cls |-> "none", display |-> NoAmount]
percent_used(spend, cap) ==
  LET tenths == HalfUp(1000 * spend, 2 * cap) IN
  IF spend < 0 \/ cap <= 0 THEN NoPercent
  ELSE [sort |-> tenths, width |-> width(tenths), cls |-> cls(tenths),
        display |-> IF tenths > 9990 THEN 9991 ELSE tenths]

\* What does not parse is shown as it came.
cents_str_to_display(halves) == IF halves < 0 THEN halves ELSE HalfUp(halves, 2)

\* A spend that is not reported is none.
Reported(u) == IF u.spend = NoAmount THEN 0 ELSE u.spend
Halves(cap) == IF cap < 0 THEN cap ELSE 2 * cap

\* The user's own page, which takes an empty spend for none in the percentage.
build_usage_rows(u) ==
  [spend |-> cents_str_to_display(Reported(u)),
   cap |-> cents_str_to_display(Halves(u.cap)),
   percent |-> IF u.cap = NoAmount THEN NoPercent
               ELSE percent_used(IF u.spend = Empty THEN 0 ELSE Reported(u), u.cap)]

\* The admins' table of all users.
build_user_rows(u) ==
  [spend |-> cents_str_to_display(Reported(u)),
   cap |-> cents_str_to_display(Halves(u.cap)),
   percent |-> IF u.cap = NoAmount THEN NoPercent ELSE percent_used(Reported(u), u.cap)]

-----------------------------------------------------------------------------
\* "never rounds money": the portal takes an amount only if it is worth exactly
\* the cents it becomes, takes every plain positive figure of at most two
\* decimal places that the gateway takes, and what it shows of the cents is the
\* same amount when it is typed again.
AmountExact ==
  LET s == Trimmed(text)
      cents == dollars_to_cents(text) IN
  IF cents # Refused
  THEN /\ Takes(cents) /\ Plain(s) /\ Denotes(s, cents)
       /\ dollars_to_cents(cents_to_dollars(cents)) = cents
  ELSE Plain(s) => Places(s) > 2 \/ ~Takes((100 * Figure(s)) \div 10 ^ Places(s))

\* common.sh: "echo whole cents for a plain dollar figure", "EXACT string
\* arithmetic": what the script sends is what was typed.
ScriptExact ==
  script_dollars_to_cents(text) # Refused => Denotes(text, script_dollars_to_cents(text))

\* Who spends more is never shown to have used less, by any of what the row
\* shows; who has reached the cap is shown so, with a full bar and as danger,
\* who has not is never shown beyond it; and the admins' page shows the same.
UsageHonest ==
  LET shown == build_usage_rows(usage)
      more == build_usage_rows([usage EXCEPT !.spend = @ + 1])
      rank == [none |-> 0, ok |-> 1, warn |-> 2, danger |-> 3] IN
  /\ usage.spend # Empty => build_user_rows(usage) = shown
  /\ usage.spend >= 0 =>
       /\ shown.spend <= more.spend
       /\ shown.percent.sort <= more.percent.sort
       /\ shown.percent.display <= more.percent.display
       /\ shown.percent.width <= more.percent.width
       /\ rank[shown.percent.cls] <= rank[more.percent.cls]
       /\ usage.cap > 0 =>
            IF usage.spend >= 2 * usage.cap
            THEN shown.percent.sort >= 1000 /\ shown.percent.width = 100
                 /\ shown.percent.cls = "danger" /\ shown.spend >= shown.cap
            ELSE shown.percent.sort <= 1000 /\ shown.spend <= shown.cap

=============================================================================
