------------------------------ MODULE OrderForm ------------------------------
(***************************************************************************)
(* Filling in Kraken's order form on a phone: execution/mobile/.           *)
(* populate_order_form sends taps and text through adb, dump_ui_stable and *)
(* parse_trade_form read the screen back, verify_order_form compares it    *)
(* with the intent.  Nothing here submits an order.                        *)
(*                                                                         *)
(* The phone is external: its form is modelled from what adb_client's      *)
(* comments say of it.  A field holds the value an intent has for it, or   *)
(* "other".  adb is used only with the compliance gate's authorization;    *)
(* without it every call raises before it reaches the phone.               *)
(***************************************************************************)
EXTENDS Integers, Sequences

CONSTANTS
  Intents,      \* ExecutionIntents with a risk:reward of 1:3
  Crooked,      \* intents whose ratio is another
  SideOf,       \* [Intents -> {"Buy", "Sell"}]
  MaxRuns,      \* bound on calls of populate_order_form
  MaxAttempts,  \* of dump_ui_stable
  Interference  \* what the phone and adb may do, see below

(* "lost": a command fails before it reaches the phone; "late": it times   *)
(* out after it did; "overlay": a call covers the screen and takes the     *)
(* taps; "remembers": the form opens as it was left; "stale": a dump is    *)
(* the one before it, any number of times in a row; "touch": somebody      *)
(* closes the form while it is being dumped.                               *)
KnownInterference ==
  {"lost", "late", "overlay", "remembers", "stale", "touch"}

ASSUME FormConstants ==
  /\ SideOf \in [Intents -> {"Buy", "Sell"}]
  /\ MaxRuns \in Nat /\ MaxAttempts \in Nat
  /\ Interference \subseteq KnownInterference

VARIABLES
  form,     \* the phone's order form, as it is
  overlay,  \* a call covers the screen
  cache,    \* the last dump uiautomator made
  driver,   \* the process that fills in and verifies
  runs      \* how often it has filled in

formVars == <<form, overlay, cache, driver, runs>>

Fields == {"limit_price", "quantity", "take_profit", "stop_loss"}
BlankForm == [open |-> FALSE, menu |-> FALSE, side |-> "Buy", type |-> "Market",
              tpsl |-> FALSE, focus |-> "none", val |-> [f \in Fields |-> "other"]]

\* What ObservedTradeForm has of a screen; a hidden field is None.
NoForm == [side |-> "none", type |-> "none", tpsl |-> FALSE,
           val |-> [f \in Fields |-> "none"]]
Protection == {"take_profit", "stop_loss"}
View(f) ==
  IF ~f.open THEN NoForm
  ELSE [side |-> f.side, type |-> f.type, tpsl |-> f.tpsl,
        val |-> [x \in Fields |->
                   IF x \in Protection /\ ~f.tpsl THEN "none" ELSE f.val[x]]]
Screen == IF overlay THEN NoForm ELSE View(form)

Idle == [pc |-> "idle", intent |-> CHOOSE i \in Intents : TRUE, at |-> 0, clean |-> FALSE,
         prev |-> NoForm, attempts |-> 0, wasStale |-> FALSE]

-----------------------------------------------------------------------------
(* order_population.py                                                     *)

\* The order of populate_order_form; faulty variant: TP/SL is switched on
\* after its fields were filled in.
ToggledLast ==
  <<"action", "dropdown", "option", "limit_price", "quantity",
    "take_profit", "stop_loss", "toggle">>
Commands ==
  <<"action", "dropdown", "option", "limit_price", "quantity", "toggle",
    "take_profit", "stop_loss">>

\* What verify_order_form expects.  Faulty variant: a bare entry matches.
MatchesEntry(seen, i) ==
  seen.side = SideOf[i] /\ seen.type = "Limit"
    /\ \A x \in Fields \ Protection : seen.val[x] = i
Matches(seen, i) ==
  /\ seen.side = SideOf[i] /\ seen.type = "Limit" /\ seen.tpsl
  /\ \A x \in Fields : seen.val[x] = i

-----------------------------------------------------------------------------
(* adb_client.py: what a tap or a text does to the form.                   *)

\* The field at the coordinates of `field`: they are those of a Limit form.
Hit(f, field) ==
  CASE ~f.open \/ f.menu -> "none"
    [] f.type = "Market" /\ field = "limit_price" -> "quantity"
    [] f.type = "Market" /\ field = "quantity" -> "none"
    [] field \in Protection /\ ~f.tpsl -> "none"
    [] OTHER -> field

\* A tap moves the focus if it hits a field; the text goes to the focus.
Typed(f, field, i, value) ==
  LET focus == IF Hit(f, field) = "none" THEN f.focus ELSE Hit(f, field)
  IN IF ~f.open \/ focus = "none" \/ f.menu THEN [f EXCEPT !.menu = FALSE]
     ELSE [f EXCEPT !.focus = focus, !.val[focus] = IF focus = field THEN value ELSE "other"]

NewForm(i) == [BlankForm EXCEPT !.open = TRUE, !.side = SideOf[i]]
Opened(f, i) ==
  IF f.open THEN {f}
  ELSE {NewForm(i)} \cup
       (IF "remembers" \in Interference
        THEN {[f EXCEPT !.open = TRUE, !.side = SideOf[i], !.focus = "none"]} ELSE {})

Effects(command, f, i) ==
  CASE command = "action" -> Opened(f, i)
    [] command = "dropdown" -> {IF f.open THEN [f EXCEPT !.menu = ~@] ELSE f}
    [] command = "option" -> {IF f.menu THEN [f EXCEPT !.menu = FALSE, !.type = "Limit"] ELSE f}
    [] command = "toggle" -> {IF f.open /\ ~f.menu THEN [f EXCEPT !.tpsl = ~@]
                              ELSE [f EXCEPT !.menu = FALSE]}
    [] OTHER -> {Typed(f, command, i, i)}

\* A field whose text did not all arrive.
Broken(command, f, i) == IF command \in Fields THEN {Typed(f, command, i, "other")} ELSE {}

-----------------------------------------------------------------------------
\* validate_risk_reward refuses a crooked intent before any tap.
StartPopulate(i) ==
  /\ driver.pc = "idle" /\ runs < MaxRuns
  /\ runs' = runs + 1
  /\ driver' = IF i \in Crooked THEN driver
               ELSE [Idle EXCEPT !.pc = "populate", !.intent = i, !.at = 1,
                                 !.clean = ~form.open]
  /\ UNCHANGED <<form, overlay, cache>>

Sent(clean) ==
  IF driver.at = Len(Commands)
  THEN [driver EXCEPT !.pc = "populated", !.clean = clean]
  ELSE [driver EXCEPT !.at = @ + 1, !.clean = clean]

Command == Commands[driver.at]

\* A command that arrives, or that the overlay takes.
Send ==
  /\ driver.pc = "populate"
  /\ form' \in IF overlay THEN {form} ELSE Effects(Command, form, driver.intent)
  /\ driver' = Sent(driver.clean /\ ~overlay
                    /\ (Command = "action" => form' = NewForm(driver.intent)))
  /\ UNCHANGED <<overlay, cache, runs>>

\* AdbCommandError: populate_order_form is left where it is.
SendFails ==
  /\ driver.pc = "populate"
  /\ \/ "lost" \in Interference /\ form' \in {form} \cup Broken(Command, form, driver.intent)
     \/ "late" \in Interference /\ form' \in Effects(Command, form, driver.intent)
  /\ driver' = [Idle EXCEPT !.pc = "stopped", !.intent = driver.intent]
  /\ UNCHANGED <<overlay, cache, runs>>

\* The caller goes on to read the screen, or gives up for now.
StartDump ==
  /\ driver.pc \in {"populated", "stopped"}
  /\ driver' = [driver EXCEPT !.pc = "dump", !.prev = [NoForm EXCEPT !.side = "unread"],
                              !.attempts = 0, !.wasStale = FALSE]
  /\ UNCHANGED <<form, overlay, cache, runs>>

GiveUp ==
  /\ driver.pc \in {"populated", "stopped", "matched", "refused"}
  /\ driver' = Idle
  /\ UNCHANGED <<form, overlay, cache, runs>>

\* Faulty variant: a single dump is believed.
AgreesAtOnce(prev, seen) == TRUE
Agrees(prev, seen) == seen = prev

\* One dump_ui and what dump_ui_stable and verify_order_form make of it.
Dump(seen, stale) ==
  LET expected == seen.side = SideOf[driver.intent]   \* expect_contains
      d == [driver EXCEPT !.prev = seen, !.attempts = @ + 1, !.wasStale = stale]
  IN /\ driver.pc = "dump"
     /\ driver' =
          IF Agrees(driver.prev, seen) /\ expected
          THEN [d EXCEPT !.pc = IF Matches(seen, driver.intent) THEN "matched" ELSE "refused"]
          ELSE IF d.attempts = MaxAttempts THEN Idle ELSE d
     /\ cache' = seen
     /\ UNCHANGED <<form, overlay, runs>>

DumpFresh == Dump(Screen, FALSE)
DumpStale == "stale" \in Interference /\ Dump(cache, TRUE)
DumpFails ==
  /\ driver.pc = "dump" /\ "lost" \in Interference
  /\ driver' = Idle
  /\ UNCHANGED <<form, overlay, cache, runs>>

-----------------------------------------------------------------------------
(* The phone and its owner.                                                *)

Call ==
  /\ "overlay" \in Interference
  /\ driver.pc # "dump"
  /\ overlay' = ~overlay
  /\ UNCHANGED <<form, cache, driver, runs>>

CloseForm ==
  /\ form.open
  /\ driver.pc = "idle" \/ "touch" \in Interference
  /\ form' = [form EXCEPT !.open = FALSE, !.menu = FALSE, !.focus = "none"]
  /\ UNCHANGED <<overlay, cache, driver, runs>>

FormInit ==
  /\ form = BlankForm /\ overlay = FALSE /\ cache = NoForm
  /\ driver = Idle /\ runs = 0

FormNext ==
  \/ \E i \in Intents \cup Crooked : StartPopulate(i)
  \/ Send \/ SendFails \/ StartDump \/ GiveUp
  \/ DumpFresh \/ DumpStale \/ DumpFails
  \/ Call \/ CloseForm

FormSpec == FormInit /\ [][FormNext]_formVars

-----------------------------------------------------------------------------
\* verify_order_form is "the checkpoint ... before anything is allowed near
\* submission": whatever failed, was repeated or covered the screen before, and
\* however often a dump was stale, the form it accepts is on the phone as the
\* intent has it, with TP/SL, if either of the two dumps that had to agree was
\* one of the screen.  Of two stale dumps nothing is promised: they agree.
MatchedFormIsIntended ==
  [][driver.pc = "dump" /\ driver'.pc = "matched" =>
       (driver.wasStale /\ driver'.wasStale) \/ Matches(View(form), driver.intent)]_formVars

\* A population that began on a closed form, met nothing and raised nothing
\* leaves exactly the intended form behind.
CleanRunPopulates ==
  driver.pc = "populated" /\ driver.clean => Matches(View(form), driver.intent)

\* "Every order this pipeline populates MUST have TP/SL attached."
PopulatedIsProtected == driver.pc = "populated" => form.tpsl
=============================================================================
