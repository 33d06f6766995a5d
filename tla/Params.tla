------------------------------- MODULE Params -------------------------------
(* ${...} in a pipeline's properties (duckdb-engine/src/params.rs): the       *)
(* contract of the declared parameters is checked, and every property is      *)
(* read once from left to right with its references replaced. `etl run` does  *)
(* that once. `etl build` does it with the built-ins left in place, and the   *)
(* artifact does it again, with nothing but its own built-ins, where it runs. *)
EXTENDS Integers, Sequences, SequencesExt

CONSTANTS
    Words,      \* characters and names, besides those that are named here
    Texts,      \* what a property may say
    Resolvers,  \* what a pipeline may be resolved with
    Specs       \* how the parameter "p" may be declared

VARIABLES
    text,      \* the property as it is written
    spec,      \* the declared parameter "p": required, typed, and its default
    given,     \* bindings where the pipeline is built or run
    pass,      \* "run", "build", or "artifact" for the second time
    phase,     \* "contract", "walk", "done" or "refused"
    rest, out, \* what is still to be read, and what has been written
    used,      \* Trace::used: what each reference was recorded as
    secrets    \* Trace::secrets

paramVars == <<text, spec, given, pass, phase, rest, out, used, secrets>>

(* A symbol is a character, or a "{...}" that names something. What a name  *)
(* begins with tells what it is: a parameter or a built-in, a variable of a *)
(* context, a variable of the environment, a secret, or nothing.            *)
Chr(c) == [is |-> "char", what |-> c, of |-> ""]
Braces(kind, name) == [is |-> "braces", what |-> name, of |-> kind]
Dollar == Chr("$")
Open == Chr("{")          \* a "{" that is not closed

BuiltIns == {"date"}
Redacted == <<Chr("*")>>
Nothing == <<Chr("nothing")>>   \* stands for None
Has(v) == v # Nothing
Passes == {"run", "build", "artifact"}
Symbols ==
    [is : {"char", "braces"}, of : {"", "name", "context", "env", "secret", "empty"},
     what : {"$", "{", "s", "c", "f", "date", "nothing"} \cup Passes \cup Words]

(* Resolver: bind, context and activate, secrets; the environment. `shadow` *)
(* is a context that has a variable of the name of a built-in.              *)
Unbound == [explicit |-> Nothing, active |-> Nothing, shadow |-> FALSE, store |-> FALSE, secret |-> Nothing, env |-> Nothing]
ResolverType ==
    [explicit : Seq(Symbols), active : Seq(Symbols), shadow : BOOLEAN, store : BOOLEAN,
     secret : Seq(Symbols), env : Seq(Symbols)]
SpecType == [declared : BOOLEAN, required : BOOLEAN, typed : BOOLEAN, default : Seq(Symbols)]

(* Only a secret holds this symbol, which so tells where a secret has gone.  *)
Secret == Chr("s")
Holds(s, symbol) == symbol \in ToSet(s)
Dollars(s) == Holds(s, Dollar)
Public(s) == ~Holds(s, Secret)

(* Sequences of symbols, a secret only with a store, no default without a    *)
(* declaration, and nothing else that holds what tells a secret.             *)
WellGiven ==
    /\ Texts \subseteq Seq(Symbols) /\ \A t \in Texts : Public(t)
    /\ Resolvers \subseteq ResolverType
    /\ \A g \in Resolvers :
          (Has(g.secret) => g.store) /\ Public(g.explicit) /\ Public(g.active) /\ Public(g.env)
    /\ Specs \subseteq SpecType
    /\ \A s \in Specs : (~s.declared => s.default = Nothing) /\ Public(s.default)

(* A sample: escapes, lone dollars, every kind of reference, and values that *)
(* hold a reference.                                                         *)
Ref(kind, name) == <<Dollar, Braces(kind, name)>>
SampleTexts ==
    {<<Chr("c")>>, <<Chr("c"), Dollar, Open>>, <<Dollar, Chr("c"), Dollar>>, Ref("empty", ""),
     Ref("name", "p") \o <<Chr("c")>>, Ref("name", "date") \o <<Chr("c")>> \o Ref("name", "p"),
     <<Dollar>> \o Ref("name", "p"), <<Dollar, Dollar>> \o Ref("name", "date"),
     Ref("secret", "s") \o Ref("name", "p"), Ref("env", "x"), Ref("context", "v")}
Values == {<<>>, <<Chr("c")>>, <<Chr("7")>>, Ref("env", "x"), <<Dollar, Dollar>>}
SampleResolvers ==
    {g \in [explicit : Values \cup {Nothing}, active : {Nothing, <<Chr("7")>>}, shadow : BOOLEAN,
            store : BOOLEAN, secret : {Nothing, <<Secret>>}, env : {Nothing, <<Chr("e")>>}] :
        Has(g.secret) => g.store}
SampleSpecs ==
    {[declared |-> FALSE, required |-> FALSE, typed |-> FALSE, default |-> Nothing]}
    \cup [declared : {TRUE}, required : BOOLEAN, typed : BOOLEAN,
          default : {Nothing, <<Chr("c")>>, <<Chr("7")>>}]

Init ==
    /\ text \in Texts
    /\ spec \in Specs
    /\ given \in Resolvers
    /\ pass \in {"run", "build"} /\ phase = "contract"
    /\ rest = text /\ out = <<>> /\ used = {} /\ secrets = {}

(* What this pass resolves with: Resolver::new where an artifact runs, whose *)
(* environment is another one.                                               *)
Resolver == IF pass = "artifact" THEN [Unbound EXCEPT !.env = <<Chr("f")>>] ELSE given

-----------------------------------------------------------------------------
(* Resolver::lookup                                                         *)

\* Mutant: a built-in is substituted at build time too.
BuiltInNow(name) == IF name \in BuiltIns THEN <<Chr(pass)>> ELSE Nothing
(* The built-in's value, which differs from place to place; the reference   *)
(* itself when it is deferred.                                              *)
BuiltIn(name) ==
    IF name \notin BuiltIns THEN Nothing
    ELSE IF pass = "build" THEN <<Dollar, Braces("name", name)>>
    ELSE <<Chr(pass)>>

\* Mutant: a declared default hides the active context.
DefaultFirst(name) ==
    IF name = "p" /\ Has(Resolver.explicit) THEN Resolver.explicit
    ELSE IF name = "p" /\ spec.declared /\ Has(spec.default) THEN spec.default
    ELSE IF name = "p" /\ Has(Resolver.active) THEN Resolver.active
    ELSE IF name \in BuiltIns /\ Resolver.shadow THEN <<Chr("c")>>
    ELSE BuiltIn(name)

(* An explicit binding, the active context, the default, a built-in.        *)
Lookup(name) ==
    IF name = "p" /\ Has(Resolver.explicit) THEN Resolver.explicit
    ELSE IF name = "p" /\ Has(Resolver.active) THEN Resolver.active
    ELSE IF name \in BuiltIns /\ Resolver.shadow THEN <<Chr("c")>>
    ELSE IF name = "p" /\ spec.declared /\ Has(spec.default) THEN spec.default
    ELSE BuiltIn(name)

-----------------------------------------------------------------------------
(* check_contract                                                           *)

IsInteger(v) == v = <<Chr("7")>>

(* check_type: an integer, or not checked.                                  *)
CheckType(v) == spec.typed => IsInteger(v)

Satisfied(v) ==
    IF Has(v) THEN (spec.required => v # <<>>) /\ CheckType(v) ELSE ~spec.required

CheckContract ==
    /\ phase = "contract"
    /\ phase' = IF spec.declared => Satisfied(Lookup("p")) THEN "walk" ELSE "refused"
    /\ UNCHANGED <<text, spec, given, pass, rest, out, used, secrets>>

-----------------------------------------------------------------------------
(* interpolate: one property, from left to right                            *)

Interpolating == phase = "walk" /\ rest # <<>>
Write(written, n) ==
    /\ out' = out \o written
    /\ rest' = SubSeq(rest, n + 1, Len(rest))
    /\ UNCHANGED <<text, spec, given, pass, phase>>
Traced == UNCHANGED <<used, secrets>>
Second == IF Len(rest) > 1 THEN rest[2] ELSE Nothing[1]

Character == Interpolating /\ rest[1] # Dollar /\ Write(<<rest[1]>>, 1) /\ Traced

(* "$$" is one dollar; a dollar before anything else is itself.             *)
Escaped == Interpolating /\ rest[1] = Dollar /\ Second = Dollar /\ Write(<<Dollar>>, 2) /\ Traced
Lone ==
    /\ Interpolating /\ rest[1] = Dollar /\ Second \notin {Dollar, Open} /\ Second.is # "braces"
    /\ Write(<<Dollar>>, 1) /\ Traced

Refuse == phase' = "refused" /\ UNCHANGED <<text, spec, given, pass, rest, out, used, secrets>>
Unterminated == Interpolating /\ rest[1] = Dollar /\ Second = Open /\ Refuse

(* resolve_one: secrets first, then the environment, a context, a name.     *)
ResolveSecret == IF Resolver.store THEN Resolver.secret ELSE Nothing
ResolveContext == Resolver.active
ResolveOne(ref) ==
    IF ref.of = "secret" THEN ResolveSecret
    ELSE IF ref.of = "env" THEN Resolver.env
    ELSE IF ref.of = "context" THEN ResolveContext
    ELSE IF ref.of = "empty" THEN Nothing ELSE Lookup(ref.what)

Referring == Interpolating /\ rest[1] = Dollar /\ Second.is = "braces"
Unresolved == Referring /\ ~Has(ResolveOne(Second)) /\ Refuse

\* Mutant: a secret is not remembered.
RememberNothing(ref, v) == secrets
Remember(ref, v) == IF ref.of = "secret" THEN secrets \cup {v} ELSE secrets

(* The value goes into the document; what is recorded of it is masked.      *)
Reference ==
    LET v == ResolveOne(Second) IN
    /\ Referring /\ Has(v)
    /\ secrets' = Remember(Second, v)
    /\ used' = used \cup {<<Second, IF v \in secrets' THEN Redacted ELSE v>>}
    /\ Write(v, 2)

(* resolve returns. What `etl build` made is baked in, if secrets are       *)
(* allowed, and resolved again by the runner's execute.                     *)
Resolve ==
    /\ phase = "walk" /\ rest = <<>>
    /\ phase' = "done"
    /\ UNCHANGED <<text, spec, given, pass, rest, out, used, secrets>>

RunArtifact ==
    /\ phase = "done" /\ pass = "build"
    /\ pass' = "artifact" /\ phase' = "contract"
    /\ rest' = out /\ out' = <<>> /\ used' = {} /\ secrets' = {}
    /\ UNCHANGED <<text, spec, given>>

Ended == (phase = "refused" \/ (phase = "done" /\ pass # "build")) /\ UNCHANGED paramVars

Next ==
    \/ CheckContract \/ Character \/ Escaped \/ Lone \/ Unterminated \/ Unresolved \/ Reference
    \/ Resolve \/ RunArtifact \/ Ended

-----------------------------------------------------------------------------
TypeOK ==
    /\ pass \in Passes
    /\ phase \in {"contract", "walk", "done", "refused"}
    /\ secrets \subseteq {given.secret}

(* What a text means, read once with the bindings g of the place where it was *)
(* built and the built-ins of the place where it runs.                        *)
BoundTo(ref, g, d, place) ==
    IF ref.of = "secret" THEN g.secret
    ELSE IF ref.of = "env" THEN g.env
    ELSE IF ref.of = "context" THEN g.active
    ELSE IF ref.what \in BuiltIns THEN IF g.shadow THEN <<Chr("c")>> ELSE <<Chr(place)>>
    ELSE IF Has(g.explicit) THEN g.explicit
    ELSE IF Has(g.active) THEN g.active ELSE d
Reading(t, g, d, place) ==
    LET from[i \in 1 .. Len(t) + 1] ==
            IF i > Len(t) THEN <<>>
            ELSE IF t[i] # Dollar \/ i = Len(t) THEN <<t[i]>> \o from[i + 1]
            ELSE IF t[i + 1] = Dollar THEN <<Dollar>> \o from[i + 2]
            ELSE IF t[i + 1].is = "braces" THEN BoundTo(t[i + 1], g, d, place) \o from[i + 2]
            ELSE <<Dollar>> \o from[i + 1]
    IN  from[1]
Meaning == Reading(text, given, spec.default, pass)

(* A document that is resolved says what it means, with every reference     *)
(* replaced once and nothing that was put in read again, whichever of the   *)
(* four places each value came from.                                        *)
SaysWhatItMeans == phase = "done" /\ pass = "run" => out = Meaning

(* So does an artifact, and it is never refused where it runs, if no dollar *)
(* is left over from the build - neither "$$" nor a value that holds one -  *)
(* and if the parameter's default alone satisfies its contract.             *)
PlainDollars ==
    /\ \A i \in 1 .. Len(text) - 1 : ~(text[i] = Dollar /\ text[i + 1] = Dollar)
    /\ \A v \in {given.explicit, given.active, given.secret, given.env, spec.default} : ~Dollars(v)
DefaultSatisfies == spec.declared => Satisfied(spec.default)
ArtifactAgrees ==
    pass = "artifact" /\ PlainDollars /\ DefaultSatisfies =>
        phase # "refused" /\ (phase = "done" => out = Meaning)

(* A resolution whose result holds a secret says so, and its record of what *)
(* it used never holds the secret's value: that is what --allow-secrets,    *)
(* and what is shown of a run, rest on.                                     *)
SecretsKept ==
    /\ phase = "done" /\ Holds(out, Secret) /\ pass # "artifact" => secrets # {}
    /\ \A u \in used : u[1].of = "secret" => u[2] = Redacted

(* "Two passes, and the second one finishes the job" (params/tests.rs): what*)
(* was built runs, and says what it means, if the parameter's default is of *)
(* its type.                                                                *)
SecondPassFinishes ==
    pass = "artifact" /\ (spec.declared /\ Has(spec.default) => Satisfied(spec.default)) =>
        phase # "refused" /\ (phase = "done" => out = Meaning)
=============================================================================
