-------------------------------- MODULE Money --------------------------------
(***************************************************************************)
(* domain/money: amounts as integer minor units with a currency, computed  *)
(* in JavaScript numbers.  A number holds every integer up to 2^53 and     *)
(* beyond that only some, so a sum, a product or a typed amount may come   *)
(* out rounded; the code's answer is to refuse every result that is not a  *)
(* safe integer.  Whether that is enough is what ShopProofs ends with.     *)
(***************************************************************************)
EXTENDS Integers

CONSTANT Exact          \* the numbers hold every integer up to here: 2^53

ASSUME ExactAssumption == Exact \in Nat \ {0} /\ Exact % 2 = 0

CurrencyCodes == {"INR"}

\* 10 ^ MINOR_UNIT_EXPONENT
MinorPerMajor == 100

MaxSafe == Exact - 1
SafeIntegers == -MaxSafe .. MaxSafe

\* The number nearest to an integer; beyond Exact at most every second integer
\* is one.
Nearest(x) == IF x \in -Exact .. Exact THEN x ELSE 2 * (x \div 2)

Amount(minor, currency) == [kind |-> "AMOUNT", minor |-> minor, currency |-> currency]
Refused(code) == [kind |-> code, minor |-> 0, currency |-> "NONE"]

\* The amounts there can be.
Amounts == {Amount(minor, currency) : minor \in SafeIntegers, currency \in CurrencyCodes}

\* money(): the one constructor.
MoneyOf(minor, currency) ==
    IF minor \in SafeIntegers THEN Amount(minor, currency) ELSE Refused("MONEY_NOT_INTEGER")

-----------------------------------------------------------------------------
(* Arithmetic. *)

AddMoney(left, right) ==
    IF left.currency # right.currency THEN Refused("MONEY_CURRENCY_MISMATCH")
    ELSE MoneyOf(Nearest(left.minor + right.minor), left.currency)

MultiplyMoney(amount, quantity) ==
    IF quantity \notin 0 .. MaxSafe THEN Refused("MONEY_INVALID_QUANTITY")
    ELSE MoneyOf(Nearest(amount.minor * quantity), amount.currency)

\* -1, 0 or 1, of amounts in one currency.
CompareMoney(left, right) ==
    IF left.currency # right.currency THEN "MONEY_CURRENCY_MISMATCH"
    ELSE IF left.minor < right.minor THEN -1 ELSE IF left.minor > right.minor THEN 1 ELSE 0

-----------------------------------------------------------------------------
(* Text.  An amount is shown as a sign, the currency's symbol, the major    *)
(* units, and two digits; a typed one may have none, one, two or more       *)
(* digits after the point, and anything else may be typed as well.          *)

\* What stands in a text beside its sign, its digits and one point.
Marks == {"none", "symbol", "other"}

Text(mark, negative, whole, places, fraction) ==
    [mark |-> mark, negative |-> negative, whole |-> whole, places |-> places,
     fraction |-> fraction]

Abs(x) == IF x < 0 THEN -x ELSE x

FormatMoney(amount) ==
    Text("symbol", amount.minor < 0, Abs(amount.minor) \div MinorPerMajor, 2,
         Abs(amount.minor) % MinorPerMajor)

\* padEnd: "5" after the point is fifty.
Padded(text) ==
    IF text.places = 0 THEN 0 ELSE IF text.places = 1 THEN 10 * text.fraction ELSE text.fraction

\* What the text stands for, in minor units.
Meant(text) ==
    LET size == MinorPerMajor * text.whole + Padded(text)
    IN  IF text.negative THEN -size ELSE size

\* Only a plain decimal is read; what is shown with its symbol is not one.
ParseMajorUnits(text, currency) ==
    IF text.mark # "none" THEN Refused("MONEY_UNPARSEABLE")
    ELSE IF text.places > 2 THEN Refused("MONEY_TOO_PRECISE")
    ELSE MoneyOf(Nearest(Meant(text)), currency)

-----------------------------------------------------------------------------
(* The database keeps 64-bit integers, and the API strings of digits: both  *)
(* are exact, whatever their size.                                          *)

MoneyFromBigInt(minor, currency) ==
    IF minor \notin SafeIntegers THEN Refused("MONEY_EXCEEDS_SAFE_RANGE")
    ELSE MoneyOf(minor, currency)

MoneyToBigInt(amount) == amount.minor

ToMoneyDto(amount) == [amountMinor |-> amount.minor, currency |-> amount.currency]

FromMoneyDto(dto) ==
    IF dto.currency \notin CurrencyCodes THEN Refused("MONEY_DTO_INVALID")
    ELSE MoneyFromBigInt(dto.amountMinor, dto.currency)

-----------------------------------------------------------------------------
(* The provider takes its amount as a number.                               *)

ProviderMinimum == 100

AssessPayableAmount(minor, currency) ==
    IF currency \notin CurrencyCodes THEN Refused("UNSUPPORTED_CURRENCY")
    ELSE IF minor <= 0 THEN Refused("NOT_POSITIVE")
    ELSE IF minor > MaxSafe THEN Refused("NOT_SAFELY_REPRESENTABLE")
    ELSE IF minor < ProviderMinimum THEN Refused("BELOW_PROVIDER_MINIMUM")
    ELSE [kind |-> "PAYABLE", minor |-> minor, currency |-> currency]

ToProviderAmount(payable) == Nearest(payable.minor)
=============================================================================
