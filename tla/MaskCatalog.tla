----------------------------- MODULE MaskCatalog -----------------------------
(***************************************************************************)
(* What the worker publishes about itself, and clients that know it by     *)
(* nothing else: the linter runs the published examples, an agent takes    *)
(* arguments by the names and choices of argument_specs and lays them out  *)
(* by position, a grader runs the reference statement of an agent's task.  *)
(* The calls of a statement nest: each takes the result of the one before  *)
(* as its value.  Every client has a connection of its own to MaskWorker.  *)
(***************************************************************************)
EXTENDS MaskWorker, TestOracles

CONSTANTS
    Linters,   \* the clients that run what is published
    Text(_),   \* the characters of a literal
    Texts      \* values agents pass

VARIABLES
    doing,     \* client -> its statement, or None
    step,      \* client -> calls of the statement that are done
    result     \* client -> the column the last of them returned

catalogVars == <<request, row, out, reply, doing, step, result>>

(* A client has the name of its connection.                                *)
Clients == Connections
Agents == Clients \ Linters

-----------------------------------------------------------------------------
(* argument_specs(), in the order of their positions.                      *)

Word(w) == [word |-> w, spelling |-> w]
ArgSpec(name, choices) == [name |-> name, choices |-> {Word(w) : w \in choices}]

(* Mutated fpe_arg_specs: the key is announced before the format.          *)
KeyBeforeFormat ==
    <<ArgSpec("value", {}), ArgSpec("key", {}), ArgSpec("format", FormatNames)>>

fpe_arg_specs ==
    <<ArgSpec("value", {}), ArgSpec("format", FormatNames), ArgSpec("key", {})>>

token_arg_specs == <<ArgSpec("value", {}), ArgSpec("key", {})>>

redact_arg_specs == <<ArgSpec("value", {}), ArgSpec("mode", ModeNames)>>

argument_specs ==
    [mask_fpe   |-> fpe_arg_specs,   mask_unfpe  |-> fpe_arg_specs,
     mask_token |-> token_arg_specs, mask_redact |-> redact_arg_specs]

k == Word("k")
my_secret_key == Word("my-secret-key")

ChoicesOf(fn, name) ==
    UNION {argument_specs[fn][a].choices :
              a \in {b \in 1..Arity[fn] : argument_specs[fn][b].name = name}}

-----------------------------------------------------------------------------
(* Statements.                                                             *)

(* One written in SQL, with the output published beside it, or NULL.       *)
Sql(task, calls, shows) ==
    [task |-> task, calls |-> calls, shows |-> shows, meant |-> None]
Call(fn, args) == [fn |-> fn, args |-> args]

(* One that an agent makes of what it means by the published names, nested *)
(* calls with the same meaning.                                            *)
ByName(task, fns, meant) ==
    [task |-> task, shows |-> NULL, meant |-> meant,
     calls |-> [n \in DOMAIN fns |->
        Call(fns[n], [a \in DOMAIN argument_specs[fns[n]] |->
                         meant[argument_specs[fns[n]][a].name]])]]

SomeCard == Text("4012888888881881")
SomeSsn == Text("123-45-6789")
SomeEmail == Text("alice@example.com")
SomeAccount == Text("customer-42")
SomeSecret == Text("secret")

ASSUME CatalogAssumption ==
    /\ Linters \subseteq Clients
    /\ {SomeCard, SomeSsn, SomeEmail, SomeAccount, SomeSecret} \subseteq Value
    /\ Texts \subseteq Value \cup {NULL}
    /\ EmptyKey \notin {k, my_secret_key}
    /\ NULL \notin {k, my_secret_key} \cup {Word(w) : w \in FormatNames \cup ModeNames}

(* What the literals are: a card number of 16 digits, an address with its  *)
(* @ in the sixth place, a word of six letters, and how some of them read  *)
(* with some of their characters starred.                                  *)
Starred(value, places) ==
    [i \in DOMAIN value |-> IF i \in places THEN Star ELSE value[i]]

ASSUME LiteralsAssumption ==
    /\ KEEP = 4 /\ PAN_LEN = 16
    /\ Len(SomeCard) = 16 /\ IsPan(SomeCard)
    /\ Len(SomeEmail) = 17 /\ \A i \in DOMAIN SomeEmail : SomeEmail[i] = At <=> i = 6
    /\ Len(SomeSecret) = 6
    /\ Text("************1881") = Starred(SomeCard, 1..12)
    /\ Text("4012************") = Starred(SomeCard, 5..16)
    /\ Text("a****@example.com") = Starred(SomeEmail, 2..5)
    /\ Text("******") = Starred(SomeSecret, 1..6)

FpeCard(task, key) == Sql(task, <<Call("mask_fpe", <<SomeCard, Word("card"), key>>)>>, NULL)
RoundTripSsn(task, key) ==
    Sql(task, <<Call("mask_fpe", <<SomeSsn, Word("ssn"), key>>),
                Call("mask_unfpe", <<NULL, Word("ssn"), key>>)>>, SomeSsn)
Token(task, key) == Sql(task, <<Call("mask_token", <<SomeAccount, key>>)>>, NULL)
Redact(task, value, mode, shows) ==
    Sql(task, <<Call("mask_redact", <<value, Word(mode)>>)>>, shows)
RedactCard(task) == Redact(task, SomeCard, "last4", Text("************1881"))
RedactEmail(task) == Redact(task, SomeEmail, "email", Text("a****@example.com"))

(* vgi.example_queries of the schema, vgi.executable_examples, and the     *)
(* examples of the functions with the table of modes.                      *)
ExampleQueries ==
    <<FpeCard(NULL, my_secret_key), RoundTripSsn(NULL, k),
      Token(NULL, my_secret_key), RedactCard(NULL)>>
EXECUTABLE_EXAMPLES ==
    <<RedactCard(NULL), RedactEmail(NULL), FpeCard(NULL, my_secret_key),
      RoundTripSsn(NULL, k), Token(NULL, my_secret_key)>>
FpeExamples == <<FpeCard(NULL, my_secret_key)>>
UnfpeExamples == <<RoundTripSsn(NULL, my_secret_key)>>
TokenExamples == <<Token(NULL, my_secret_key)>>
RedactExamples ==
    <<RedactCard(NULL), RedactEmail(NULL),
      Redact(NULL, SomeCard, "first4", Text("4012************")),
      Redact(NULL, SomeSecret, "all", Text("******"))>>
Published == {ExampleQueries, EXECUTABLE_EXAMPLES,
              FpeExamples, UnfpeExamples, TokenExamples, RedactExamples}

(* Mutated reference_sql: one of the graders uses another key.             *)
GraderOtherKey ==
    <<RedactCard("redact_card_last4"), RedactEmail("redact_email_for_display"),
      RoundTripSsn("fpe_roundtrip_ssn", k), Token("token_pseudonym", k),
      FpeCard("fpe_card", my_secret_key)>>

(* The private reference_sql of each of the agent's tasks.                 *)
reference_sql ==
    <<RedactCard("redact_card_last4"), RedactEmail("redact_email_for_display"),
      RoundTripSsn("fpe_roundtrip_ssn", k), Token("token_pseudonym", k),
      FpeCard("fpe_card", k)>>

(* The prompts, as an agent carries them out.                              *)
AGENT_TEST_TASKS ==
    <<ByName("redact_card_last4", <<"mask_redact">>,
             [value |-> SomeCard, mode |-> Word("last4")]),
      ByName("redact_email_for_display", <<"mask_redact">>,
             [value |-> SomeEmail, mode |-> Word("email")]),
      ByName("fpe_roundtrip_ssn", <<"mask_fpe", "mask_unfpe">>,
             [value |-> SomeSsn, format |-> Word("ssn"), key |-> k]),
      ByName("token_pseudonym", <<"mask_token">>, [value |-> SomeAccount, key |-> k]),
      ByName("fpe_card", <<"mask_fpe">>,
             [value |-> SomeCard, format |-> Word("card"), key |-> k])>>

-----------------------------------------------------------------------------

CatalogInit ==
    /\ Init
    /\ doing = [c \in Clients |-> None]
    /\ step = [c \in Clients |-> 0]
    /\ result = [c \in Clients |-> <<>>]

Begin(c, statement) ==
    /\ doing[c] = None
    /\ doing' = [doing EXCEPT ![c] = statement]
    /\ UNCHANGED <<vars, step, result>>

RunExample(c) == \E examples \in Published : \E i \in DOMAIN examples :
    Begin(c, examples[i])
Grade(c) == \E i \in DOMAIN reference_sql : Begin(c, reference_sql[i])
DoTask(c) == \E i \in DOMAIN AGENT_TEST_TASKS : Begin(c, AGENT_TEST_TASKS[i])

(* An agent calls a function with any of the choices it is offered.        *)
CallOffered(c) ==
    \/ \E fn \in {"mask_fpe", "mask_unfpe"}, value \in Texts :
       \E format \in ChoicesOf(fn, "format") :
          Begin(c, ByName(NULL, <<fn>>, [value |-> value, format |-> format, key |-> k]))
    \/ \E value \in Texts, mode \in ChoicesOf("mask_redact", "mode") :
          Begin(c, ByName(NULL, <<"mask_redact">>, [value |-> value, mode |-> mode]))

Done(c) == doing[c] # None /\ step[c] = Len(doing[c].calls)

(* A call on one row.                                                      *)
RowRequest(fn, operands) ==
    [fn |-> fn,
     args |-> [a \in DOMAIN operands |-> [type |-> "Utf8", cells |-> <<operands[a]>>]]]

(* The next call of the statement, over the result of the last one.        *)
NextRequest(c) ==
    LET call == doing[c].calls[step[c] + 1]
    IN  RowRequest(call.fn, IF step[c] = 0 THEN call.args
                            ELSE [call.args EXCEPT ![1] = result[c][1]])

SendCall(c) ==
    /\ doing[c] # None /\ ~Done(c)
    /\ Submit(c, NextRequest(c))
    /\ UNCHANGED <<doing, step, result>>

Work(c) == Process(c) /\ UNCHANGED <<doing, step, result>>

TakeResult(c) ==
    /\ Collect(c) /\ IsOk(reply[c])
    /\ result' = [result EXCEPT ![c] = reply[c].val]
    /\ step' = [step EXCEPT ![c] = @ + 1]
    /\ UNCHANGED doing

Leave(c) ==
    /\ Done(c)
    /\ doing' = [doing EXCEPT ![c] = None]
    /\ step' = [step EXCEPT ![c] = 0]
    /\ result' = [result EXCEPT ![c] = <<>>]
    /\ UNCHANGED vars

Evaluate(c) == SendCall(c) \/ Work(c) \/ TakeResult(c)

CatalogNext ==
    \/ \E c \in Linters : RunExample(c) \/ Grade(c)
    \/ \E c \in Agents : DoTask(c) \/ CallOffered(c)
    \/ \E c \in Clients : Evaluate(c) \/ Leave(c)

CatalogSpec == CatalogInit /\ [][CatalogNext]_catalogVars

-----------------------------------------------------------------------------

CatalogTypeOK ==
    /\ TypeOK
    /\ DOMAIN doing = Clients /\ DOMAIN step = Clients /\ DOMAIN result = Clients
    /\ \A c \in Clients :
          /\ doing[c] = None => step[c] = 0 /\ result[c] = <<>> /\ request[c] = None
          /\ doing[c] # None => step[c] \in 0..Len(doing[c].calls)
          /\ step[c] > 0 => result[c] \in [{1} -> Value \cup {NULL}]

(* "Guaranteed-runnable" (redact.rs), and the choices of an argument are   *)
(* the values it takes: no published statement and no call laid out by the *)
(* published names and choices is refused.                                 *)
NothingRefused == \A c \in Clients : reply[c] # None => IsOk(reply[c])

(* An argument given by its published name plays that part: the engine     *)
(* gets the format, mode or key of that name, for the published positions  *)
(* are those process() reads.                                              *)
Meant(fn, m) ==
    IF m.value = NULL THEN Ok(NULL)
    ELSE CASE fn = "mask_fpe"    -> fpe_crypt(m.value, FormatParse(m.format).val, m.key, TRUE)
           [] fn = "mask_unfpe"  -> fpe_crypt(m.value, FormatParse(m.format).val, m.key, FALSE)
           [] fn = "mask_token"  -> token(m.value, m.key)
           [] fn = "mask_redact" -> Ok(redact(m.value, ModeParse(m.mode).val))
NamesMeanWhatTheySay == \A c \in Clients :
    Done(c) /\ doing[c].meant # None /\ step[c] = 1 =>
        Ok(result[c][1]) = Meant(doing[c].calls[1].fn, doing[c].meant)

(* What is published beside a statement is what it returns, round trips    *)
(* included, and a card is masked into another valid 16-digit card.        *)
AsPublished == \A c \in Clients : Done(c) =>
    LET last == doing[c].calls[step[c]]
    IN  /\ doing[c].shows # NULL => result[c][1] = doing[c].shows
        /\ last.fn = "mask_fpe" /\ last.args[1] = SomeCard /\ last.args[2].word = "card" =>
              /\ IsPan(result[c][1]) /\ Len(result[c][1]) = PAN_LEN
              /\ is_luhn_valid(result[c][1])

(* "Every reference query is deterministic" (lib.rs): an agent that did    *)
(* what its prompt asks has what the grader gets, whenever and beside      *)
(* whatever else each of them ran.                                         *)
GradersAgree == \A c, d \in Clients :
    Done(c) /\ Done(d) /\ doing[c].task # NULL /\ doing[c].task = doing[d].task =>
        result[c] = result[d]
=============================================================================
