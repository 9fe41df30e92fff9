---------------------------- MODULE OptionServer ----------------------------
(***************************************************************************)
(* The options of the service as a settings page sees them, and the        *)
(* handlers the settings pages of the three front ends have in common: the *)
(* options are loaded once, a checkbox is saved as it is clicked, and a    *)
(* button saves the fields of its card one awaited request after another,  *)
(* comparing the fields with the options as they were loaded.              *)
(*                                                                         *)
(* A behaviour stays in one card of one page: the cards share no field,    *)
(* except the SMTP credential, which two of them read.                     *)
(***************************************************************************)
EXTENDS Browser, SequencesExt

CONSTANTS
    Pages,          \* the settings pages to look at
    MaxEdits        \* bound: how many fields and checkboxes of the card are used

ASSUME OptionAssumption == MaxEdits \in Nat \ {0}

(***************************************************************************)
(* A card: its text fields, its checkboxes, the other fields its handlers  *)
(* read, and its buttons, each with the steps of the function it calls.    *)
(* A step saves one option, unless its field is as it was loaded ("same"), *)
(* is empty ("empty"), or the SMTP credential was emptied ("credential").  *)
(***************************************************************************)
Card(fields, toggles, buttons) ==
    [fields |-> fields, toggles |-> toggles, reads |-> {}, buttons |-> buttons]

Save(key, unless) == [key |-> key, unless |-> unless, as |-> "it is"]
Always(key) == Save(key, {})
Changed(key) == Save(key, {"same"})
\* Faulty: an empty credential is taken for a new one.
ChangedEvenIfEmpty(key) == Save(key, {"same"})
ChangedAndFilled(key) == Save(key, {"same", "empty"})
WithoutSlash(step) == [step EXCEPT !.as = "address"]
AsJSON(step) == [step EXCEPT !.as = "json"]

Keys(card) == card.fields \cup card.toggles \cup card.reads
Steps(card) == UNION {Range(button) : button \in card.buttons}

(***************************************************************************)
(* Values: "" is empty, "undefined" a missing field, "zero" the number the *)
(* page puts in a field before the options are loaded, "bad" neither JSON  *)
(* nor an address, and "new/" an address with a slash at its end.          *)
(***************************************************************************)
Whitelist == "EmailDomainWhitelist"

\* GetOptions leaves out the keys that end in Token or Secret.
Hidden == {"SMTPToken", "WeChatServerToken", "MessagePusherToken",
           "GitHubClientSecret", "LarkClientSecret", "OidcClientSecret"}

GetOptions(n) ==
    /\ net[n].req = "options"
    /\ Answered(n, [k \in DOMAIN server.options \ Hidden |-> server.options[k]])
    /\ UNCHANGED server

Saved(arg) == [server EXCEPT !.options[arg.key] = IF arg.value = "undefined" THEN "" ELSE arg.value]

\* A number does not decode into the text of an option, and what is undefined
\* is not in the request at all.
UpdateOption(n) ==
    LET arg == net[n].arg IN
    /\ net[n].req = "put"
    /\ IF arg.value = "zero"
       THEN net' = [net EXCEPT ![n].st = "failed"] /\ UNCHANGED <<view, server, calls, history>>
       ELSE server' = Saved(arg) /\ Answered(n, <<>>)

\* The release page, the provider's discovery document, the deletion of old logs.
Tell(n) ==
    /\ net[n].req = "tell"
    /\ \E told \in {"new", "undefined"} : Answered(n, told)
    /\ UNCHANGED server

\* The service refuses: the option does not allow the value, or the database fails.
Refuse(n) ==
    /\ calls + history.faults < MaxEvents
    /\ history' = [history EXCEPT !.faults = @ + 1]
    /\ net' = [net EXCEPT ![n].st = "refused"]
    /\ UNCHANGED <<view, server, calls>>

\* The connection breaks before the request was handled, or after.
Break(n) ==
    /\ Failed(n)
    /\ \/ UNCHANGED server
       \/ net[n].req = "put" /\ net[n].arg.value # "zero" /\ server' = Saved(net[n].arg)

Serve ==
    \E n \in DOMAIN net :
        /\ net[n].st = "sent"
        /\ \/ GetOptions(n) \/ UpdateOption(n) \/ Tell(n) \/ Refuse(n) \/ Break(n)

\* Another administrator saves an option.
Elsewhere ==
    /\ Disturbed
    /\ \E k \in DOMAIN server.options :
        LET value == IF k \in view.card.toggles
                     THEN IF server.options[k] = "true" THEN "false" ELSE "true" ELSE "other"
        IN  server' = [options |-> [server.options EXCEPT ![k] = value],
                       theirs |-> [server.theirs EXCEPT ![k] = value], others |-> TRUE]

(***************************************************************************)
(* The page.  domains is the list shown for the whitelist where the page   *)
(* keeps one of its own, domain the entry to be added to it, dialog the    *)
(* one that is open.  The properties need to know which fields the reader  *)
(* may use (edits), which it used (touched), whether it saved something    *)
(* before the options were there (early), and whether it confirmed a       *)
(* warning.                                                                *)
(***************************************************************************)
OptionsInit(page, card, initial) ==
    /\ \E value \in {"true", "false"}, ratio \in {"old", "{}"} :
        LET options == [k \in Keys(card) |-> IF k \in card.toggles THEN value
                                             ELSE IF AsJSON(Changed(k)) \in Steps(card) THEN ratio ELSE "old"]
        IN  server = [options |-> options, theirs |-> options, others |-> FALSE]
    /\ \E edits \in SUBSET Keys(card) :
        /\ Cardinality(edits) <= MaxEdits
        /\ Opens([at |-> page, card |-> card, inputs |-> [k \in Keys(card) |-> initial[k]],
                  origin |-> [k \in Keys(card) |-> "undefined"], loaded |-> FALSE, loading |-> FALSE,
                  domains |-> "", domain |-> "", dialog |-> FALSE, edits |-> edits, touched |-> {},
                  early |-> FALSE, confirmed |-> FALSE, held |-> {}],
                 <<Request("getOptions", "options", "", <<>>)>>)

\* setInputs: a new object, which no handler holds.
SetInputs(v, f) == [v EXCEPT !.inputs = f, !.held = {}]
SetInput(v, k, value) == SetInputs(v, [v.inputs EXCEPT ![k] = value])

\* An empty object of ratios is shown as nothing.
Shown(value) == IF value = "{}" THEN "" ELSE value

\* The options arrive; a page that compares keeps them.
Loads(n, compares) ==
    /\ net[n].st # "failed"
    /\ IF net[n].st = "refused" THEN Ends(n, view)
       ELSE LET inputs == [k \in Keys(view.card) |->
                             IF k \in DOMAIN net[n].data THEN Shown(net[n].data[k]) ELSE "undefined"]
                v == [SetInputs(view, inputs) EXCEPT !.loaded = TRUE,
                        !.domains = IF Whitelist \in Keys(view.card) THEN inputs[Whitelist] ELSE ""]
            IN  Ends(n, IF compares THEN [v EXCEPT !.origin = inputs] ELSE v)

\* What the reader may type; an address or an object may be wrong.
Typed(k) ==
    {"", "old", "new"}
      \cup IF WithoutSlash(Changed(k)) \in Steps(view.card) \/ WithoutSlash(Always(k)) \in Steps(view.card)
           THEN {"new/"} ELSE {}
      \cup IF AsJSON(Changed(k)) \in Steps(view.card) \/ k = "OidcWellKnown" THEN {"bad"} ELSE {}

\* The reader changes the field k; the loading form takes no clicks, but it does take keys.
Types(k) ==
    /\ k \in view.edits \ view.card.toggles
    /\ \E value \in Typed(k) : Shows([SetInput(view, k, value) EXCEPT !.touched = @ \cup {k}])

\* updateOption: the one request that saves an option, alone or as the first of several.
Puts(v, fn, key, value, todo) ==
    Sends([v EXCEPT !.loading = TRUE, !.early = @ \/ ~v.loaded], fn, "put",
          [key |-> key, value |-> value, todo |-> todo])

\* A checkbox is saved as it is clicked, with the opposite of what the page knows.
Toggle(v, fn, k) == Puts(v, fn, k, IF view.inputs[k] = "true" THEN "false" ELSE "true", <<>>)
Toggles(k) ==
    /\ k \in view.edits \cap view.card.toggles
    /\ Toggle([view EXCEPT !.touched = @ \cup {k}], "updateOption", k)

\* A field that is saved as it is typed.
TypesAndPuts(k) ==
    /\ k \in view.edits \cap view.card.fields
    /\ \E value \in Typed(k) : Puts([view EXCEPT !.touched = @ \cup {k}], "updateOption", k, value, <<>>)

(***************************************************************************)
(* A button walks the steps of its function with the fields and the loaded *)
(* options of the moment it was clicked, the closure c.                    *)
(***************************************************************************)
Closure == [inputs |-> view.inputs, origin |-> view.origin]

\* Faulty: every field is sent, as the page remembers it.
SkipsOnlyEmpty(c, step) ==
    \/ "empty" \in step.unless /\ c.inputs[step.key] = ""
    \/ "credential" \in step.unless /\ c.inputs["SMTPToken"] = ""

Skips(c, step) ==
    \/ "same" \in step.unless /\ c.origin[step.key] = c.inputs[step.key]
    \/ "empty" \in step.unless /\ c.inputs[step.key] = ""
    \/ "credential" \in step.unless /\ c.inputs["SMTPToken"] = ""

\* What is not JSON ends the walk.
Halts(c, step) == ~Skips(c, step) /\ step.as = "json" /\ c.inputs[step.key] \in {"", "bad"}

Walk(c, steps) ==
    LET halts == {i \in DOMAIN steps : Halts(c, steps[i])}
        on == {i \in DOMAIN steps : ~Skips(c, steps[i]) /\ \A j \in halts : i < j}
        Sent(i) == [key |-> steps[i].key,
                    value |-> IF steps[i].as = "address" /\ c.inputs[steps[i].key] = "new/"
                              THEN "new" ELSE c.inputs[steps[i].key]]
    IN  [m \in 1 .. Cardinality(on) |-> Sent(CHOOSE i \in on : Cardinality({j \in on : j <= i}) = m)]

Saves(steps) ==
    LET todo == Walk(Closure, steps)
    IN  IF todo = <<>> THEN Shows(view) ELSE Puts(view, "updateOption", todo[1].key, todo[1].value, Tail(todo))

\* The handler that waited for request n goes on to the next option; its request takes
\* the number of the one before, and is no event of its own.
PutsNext(n, v, todo) ==
    /\ view' = [v EXCEPT !.loading = TRUE]
    /\ net' = [net EXCEPT ![n] = Request("updateOption", "put",
                 [key |-> todo[1].key, value |-> todo[1].value, todo |-> Tail(todo)], <<>>)]
    /\ UNCHANGED <<server, calls, history>>

\* Faulty: a refused value is shown as if it had been saved.
PutReturnsUnasked(n) ==
    LET arg == net[n].arg
        v == SetInput(view, arg.key, arg.value)
    IN  /\ net[n].st # "failed"
        /\ IF arg.todo = <<>> THEN Ends(n, [v EXCEPT !.loading = FALSE]) ELSE PutsNext(n, v, arg.todo)

\* One option is saved, or refused; the walk goes on all the same.
PutReturns(n) ==
    LET arg == net[n].arg
        v == IF net[n].st = "ok" THEN SetInput(view, arg.key, arg.value) ELSE view
    IN  /\ net[n].st # "failed"
        /\ IF arg.todo = <<>> THEN Ends(n, [v EXCEPT !.loading = FALSE]) ELSE PutsNext(n, v, arg.todo)

\* A handler that throws before it sends anything.
Throws == history' = [history EXCEPT !.lost = TRUE] /\ UNCHANGED <<view, net, server, calls>>

(***************************************************************************)
(* The dialog that warns before password login is disabled.                *)
(***************************************************************************)
Warns ==
    /\ "PasswordLoginEnabled" \in view.edits
    /\ view.inputs["PasswordLoginEnabled"] = "true"
    /\ Shows([view EXCEPT !.dialog = TRUE])

Confirms ==
    /\ view.dialog
    /\ Toggle([view EXCEPT !.dialog = FALSE, !.confirmed = TRUE, !.touched = @ \cup {"PasswordLoginEnabled"}],
              "updateOption", "PasswordLoginEnabled")

Cancels == view.dialog /\ Shows([view EXCEPT !.dialog = FALSE])

\* Faulty: the warning does not keep the checkbox from being saved.
ChecksUnwarned(k) == Toggles(k)

\* A checkbox, other than the one the page warns about while it is on.
Checks(k) ==
    /\ k = "PasswordLoginEnabled" => view.inputs[k] # "true"
    /\ Toggles(k)

(***************************************************************************)
(* The question whether there is a new release opens a dialog, and the     *)
(* deletion of old logs only reports.                                      *)
(***************************************************************************)
Asks(fn) == Sends(view, fn, "tell", "")
ReleaseReturns(n) ==
    /\ net[n].st # "failed"
    /\ Ends(n, IF net[n].st = "ok" /\ net[n].data = "new" THEN [view EXCEPT !.dialog = TRUE] ELSE view)
ReportReturns(n) == net[n].st # "failed" /\ Ends(n, view)
=============================================================================
