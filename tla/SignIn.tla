------------------------------- MODULE SignIn -------------------------------
(***************************************************************************)
(* The way into the application in one browser tab: the setup and the      *)
(* registration page, the login page with its three stages, the passkey    *)
(* button, the store that keeps the tokens, and the shell around the pages *)
(* that may ask the user to add a passkey.  The server is what these pages *)
(* see of it: accounts, their second factors, and the proofs it accepted.  *)
(*                                                                         *)
(* A call is answered in one step, which is also when the server acts.  A  *)
(* sign-out waits for the calls of the tab; BrowserSession is about one    *)
(* that does not.                                                          *)
(***************************************************************************)
EXTENDS Naturals, FiniteSets

CONSTANTS User,       \* user names, each the name of at most one account
          Nobody,     \* no user, no token, an empty name
          MaxCalls    \* bound on the calls of the forms that are outstanding

Factor == {"totp", "passkey"}

\* Bound on the fetches of one user that are outstanding.
MaxFetches == 2

Stage == {"initial", "password", "second_factor"}

VARIABLES server,     \* setup done, accounts, second factors of each user
          proved,     \* what each user has proved to the server since the last sign-out
          store,      \* tokens, isAuthenticated, user and the two notes about the prompt
          page,       \* the page that is open and the state of its form
          call,       \* calls of forms and passkey buttons
          fetching,   \* how many fetchUser calls are outstanding for each user's tokens
          listing,    \* how many listPasskeys answers the shell still waits for
          opened      \* how often the prompt has opened in this browser session

vars == <<server, proved, store, page, call, fetching, listing, opened>>

Call == [kind : {"setup", "register", "login", "totp", "passkey", "enroll"},
         who : User \cup {Nobody}, bridge : User \cup {Nobody}, live : BOOLEAN]

TypeOK ==
    /\ server \in [setup : BOOLEAN, accounts : SUBSET User, factors : [User -> SUBSET Factor]]
    /\ proved \in [User -> SUBSET ({"password"} \cup Factor)]
    /\ store \in [tokens : User \cup {Nobody}, flag : BOOLEAN, user : User \cup {Nobody},
                  shown : BOOLEAN, dismissed : BOOLEAN]
    /\ page \in [route : {"login", "setup", "register", "app"}, checking : BOOLEAN,
                 stage : Stage, name : User \cup {Nobody}, partial : User \cup {Nobody},
                 offered : SUBSET Factor, choice : Factor \cup {"none"},
                 busy : BOOLEAN, tapping : BOOLEAN, prompt : BOOLEAN]
    /\ call \subseteq Call /\ Cardinality(call) <= MaxCalls
    /\ fetching \in [User -> 0..MaxFetches]
    /\ listing \in 0..2
    /\ opened \in 0..2
    /\ page.route = "app" => store.flag

-----------------------------------------------------------------------------
(* A page as it is when React mounts it. *)

Mounted(route) ==
    [route |-> route, checking |-> route = "login", stage |-> "initial", name |-> Nobody,
     partial |-> Nobody, offered |-> {}, choice |-> "none", busy |-> FALSE,
     tapping |-> FALSE, prompt |-> FALSE]

\* The components that made these calls are gone: what they would set is set on nothing.
Orphaned(calls) == {[c EXCEPT !.live = FALSE] : c \in calls}

\* Users with accounts made before have any factors; an account just made has none.
Init ==
    /\ server \in [setup : {TRUE}, accounts : {User}, factors : [User -> SUBSET Factor]]
                  \cup [setup : {FALSE}, accounts : {{}}, factors : [User -> {{}}]]
    /\ proved = [u \in User |-> {}]
    /\ store = [tokens |-> Nobody, flag |-> FALSE, user |-> Nobody, shown |-> FALSE, dismissed |-> FALSE]
    /\ page \in {Mounted("login"), Mounted("register")}
    /\ call = {}
    /\ fetching = [u \in User |-> 0]
    /\ listing = 0
    /\ opened = 0

Begin(c) ==
    /\ c \notin call
    /\ Cardinality(call) < MaxCalls
    /\ call' = call \cup {c}

-----------------------------------------------------------------------------
(* The login page. *)

\* The page asks whether the installation is set up; it counts a failure as a yes.
CheckSetup ==
    /\ page.route = "login" /\ page.checking
    /\ page' \in {[page EXCEPT !.checking = FALSE],
                  IF server.setup THEN [page EXCEPT !.checking = FALSE] ELSE Mounted("setup")}
    /\ call' = IF page'.route = "setup" THEN Orphaned(call) ELSE call
    /\ UNCHANGED <<server, proved, store, fetching, listing, opened>>

TypeName ==
    /\ page.route = "login" /\ ~page.checking /\ page.stage # "second_factor"
    /\ \E u \in User \ {page.name} : page' = [page EXCEPT !.name = u]
    /\ UNCHANGED <<server, proved, store, call, fetching, listing, opened>>

\* Going to the password stage and back mounts another passkey button.
SwitchStage ==
    /\ page.route = "login" /\ ~page.checking /\ page.stage # "second_factor"
    /\ page' = [page EXCEPT !.stage = IF @ = "initial" THEN "password" ELSE "initial",
                            !.tapping = FALSE]
    /\ call' = {IF c.kind = "passkey" THEN [c EXCEPT !.live = FALSE] ELSE c : c \in call}
    /\ UNCHANGED <<server, proved, store, fetching, listing, opened>>

SwapFactor ==
    /\ page.route = "login" /\ page.stage = "second_factor"
    /\ Cardinality(page.offered) > 1
    /\ page' = [page EXCEPT !.choice = IF @ = "passkey" THEN "totp" ELSE "passkey", !.tapping = FALSE]
    /\ call' = {IF c.kind = "passkey" THEN [c EXCEPT !.live = FALSE] ELSE c : c \in call}
    /\ UNCHANGED <<server, proved, store, fetching, listing, opened>>

SubmitPassword ==
    /\ page.route = "login" /\ page.stage = "password" /\ ~page.busy
    /\ page.name # Nobody
    /\ Begin([kind |-> "login", who |-> page.name, bridge |-> Nobody, live |-> TRUE])
    /\ page' = [page EXCEPT !.busy = TRUE]
    /\ UNCHANGED <<server, proved, store, fetching, listing, opened>>

SubmitTotp ==
    /\ page.route = "login" /\ page.stage = "second_factor" /\ page.choice = "totp" /\ ~page.busy
    /\ page.partial # Nobody
    /\ Begin([kind |-> "totp", who |-> page.partial, bridge |-> page.partial, live |-> TRUE])
    /\ page' = [page EXCEPT !.busy = TRUE]
    /\ UNCHANGED <<server, proved, store, fetching, listing, opened>>

\* The button works alone in the first stage and with the partial token in the last.
TapPasskey ==
    /\ page.route = "login" /\ ~page.checking /\ ~page.tapping
    /\ \/ page.stage = "initial" /\ page.name # Nobody
       \/ page.stage = "second_factor" /\ page.choice = "passkey" /\ page.partial # Nobody
    /\ Begin([kind |-> "passkey", who |-> page.name, bridge |-> page.partial, live |-> TRUE])
    /\ page' = [page EXCEPT !.tapping = TRUE]
    /\ UNCHANGED <<server, proved, store, fetching, listing, opened>>

-----------------------------------------------------------------------------
(* Answers to the login page. *)

\* Mutant: a passkey is not asked for after the password.
AvailableTotpOnly(u) == server.factors[u] \cap {"totp"}

\* The second factors the server asks a user for after the password.
Available(u) == server.factors[u]

\* Storing the tokens of u: the store then fetches the user, the login page goes to the
\* application, and the route there fetches the user too when none is known.
Store(u) ==
    /\ store' = [store EXCEPT !.tokens = u, !.flag = TRUE]
    /\ LET entering == page.route = "login"
           more == IF entering /\ store.user = Nobody THEN 2 ELSE 1
       IN  /\ fetching[u] + more <= MaxFetches
           /\ fetching' = [fetching EXCEPT ![u] = @ + more]
           /\ page' = IF entering THEN Mounted("app") ELSE page
    /\ UNCHANGED <<listing, opened>>

\* A call has been answered; nothing it started is left where the page has changed.
Done(c) == call' = IF page'.route # page.route THEN Orphaned(call \ {c}) ELSE call \ {c}

AnswerLogin(c) ==
    /\ c.kind = "login" /\ c.who \in server.accounts
    /\ proved' = [proved EXCEPT ![c.who] = @ \cup {"password"}]
    /\ IF Available(c.who) = {}
       THEN Store(c.who)
       ELSE /\ page' = IF ~c.live THEN page
                       ELSE [page EXCEPT !.partial = c.who, !.offered = Available(c.who),
                                         !.choice = IF "passkey" \in Available(c.who) THEN "passkey" ELSE "totp",
                                         !.stage = "second_factor", !.busy = FALSE, !.tapping = FALSE]
            /\ UNCHANGED <<store, fetching, listing, opened>>
    /\ Done(c)
    /\ UNCHANGED server

AnswerTotp(c) ==
    /\ c.kind = "totp" /\ "totp" \in server.factors[c.who]
    /\ proved' = [proved EXCEPT ![c.who] = @ \cup {"totp"}]
    /\ Store(c.who)
    /\ Done(c)
    /\ UNCHANGED server

\* The server checks that the key belongs to the user of the partial token, if one is sent.
AnswerPasskey(c) ==
    /\ c.kind = "passkey" /\ c.who \in User /\ "passkey" \in server.factors[c.who]
    /\ c.bridge \in {Nobody, c.who}
    /\ proved' = [proved EXCEPT ![c.who] = @ \cup {"passkey"}]
    /\ Store(c.who)
    /\ Done(c)
    /\ UNCHANGED server

\* A wrong password or code, a cancelled or aborted ceremony, a lost connection.
Refuse(c) ==
    /\ page' = IF ~c.live THEN page
               ELSE IF c.kind = "passkey" THEN [page EXCEPT !.tapping = FALSE]
               ELSE [page EXCEPT !.busy = FALSE]
    /\ Done(c)
    /\ UNCHANGED <<server, proved, store, fetching, listing, opened>>

-----------------------------------------------------------------------------
(* The setup and registration pages; the two passwords typed agree. *)

SubmitAccount ==
    /\ page.route \in {"setup", "register"} /\ ~page.busy
    /\ \E u \in User : Begin([kind |-> page.route, who |-> u, bridge |-> Nobody, live |-> TRUE])
    /\ page' = [page EXCEPT !.busy = TRUE]
    /\ UNCHANGED <<server, proved, store, fetching, listing, opened>>

AnswerAccount(c) ==
    /\ \/ c.kind = "setup" /\ ~server.setup
       \/ c.kind = "register" /\ server.setup /\ c.who \notin server.accounts
    /\ server' = [server EXCEPT !.setup = TRUE, !.accounts = @ \cup {c.who}]
    /\ page' = Mounted("login")
    /\ Done(c)
    /\ UNCHANGED <<proved, store, fetching, listing, opened>>

\* The registration page without a code goes to the login page; so does a link or the address bar.
OpenLogin ==
    /\ page.route = "register" /\ call = {}
    /\ page' = Mounted("login")
    /\ UNCHANGED <<server, proved, store, call, fetching, listing, opened>>

-----------------------------------------------------------------------------
(* The store's user and the shell around the pages. *)

\* Mutant: the effect does not drop the answer it waits for.
WatchUncancelled == listing' = IF store.shown \/ store.dismissed \/ listing = 2 THEN listing ELSE listing + 1

\* The shell's effect runs again for every new user object, drops the answer it waits
\* for, and asks for the passkeys unless the prompt was shown or dismissed.
Watch == listing' = IF store.shown \/ store.dismissed THEN 0 ELSE 1

UserFetched(u) ==
    /\ fetching[u] > 0
    /\ fetching' = [fetching EXCEPT ![u] = @ - 1]
    /\ store' = [store EXCEPT !.user = u, !.flag = TRUE]
    /\ page' = IF page.route = "login" THEN Mounted("app") ELSE page
    /\ call' = IF page.route = "login" THEN Orphaned(call) ELSE call
    /\ Watch
    /\ UNCHANGED <<server, proved, opened>>

\* A failure of any kind takes the application away, not the tokens.
FetchFailed(u) ==
    /\ fetching[u] > 0
    /\ fetching' = [fetching EXCEPT ![u] = @ - 1]
    /\ store' = [store EXCEPT !.user = Nobody, !.flag = FALSE]
    /\ page' = IF page.route = "app" THEN Mounted("login") ELSE page
    /\ call' = IF page.route = "app" THEN Orphaned(call) ELSE call
    /\ listing' = 0
    /\ UNCHANGED <<server, proved, opened>>

\* The prompt opens for a user without passkeys and the session notes that it has; the
\* count of the openings stops at two.
Listed ==
    /\ listing > 0
    /\ listing' = listing - 1
    /\ \/ /\ store.tokens # Nobody /\ "passkey" \notin server.factors[store.tokens]
          /\ opened < 2
          /\ store' = [store EXCEPT !.shown = TRUE]
          /\ page' = [page EXCEPT !.prompt = TRUE]
          /\ opened' = opened + 1
       \/ UNCHANGED <<store, page, opened>>
    /\ UNCHANGED <<server, proved, call, fetching>>

\* "Skip for now" and "Don't ask again".
ClosePrompt ==
    /\ page.prompt
    /\ page' = [page EXCEPT !.prompt = FALSE]
    /\ store' \in {store, [store EXCEPT !.dismissed = TRUE]}
    /\ UNCHANGED <<server, proved, call, fetching, listing, opened>>

SetUpPasskey ==
    /\ page.prompt /\ ~page.busy
    /\ Begin([kind |-> "enroll", who |-> store.tokens, bridge |-> Nobody, live |-> TRUE])
    /\ page' = [page EXCEPT !.busy = TRUE]
    /\ UNCHANGED <<server, proved, store, fetching, listing, opened>>

AnswerEnroll(c) ==
    /\ c.kind = "enroll"
    /\ server' = [server EXCEPT !.factors[c.who] = @ \cup {"passkey"}]
    /\ page' = IF c.live THEN [page EXCEPT !.prompt = FALSE, !.busy = FALSE] ELSE page
    /\ Done(c)
    /\ UNCHANGED <<proved, store, fetching, listing, opened>>

LogOut ==
    /\ page.route = "app" /\ call = {} /\ \A u \in User : fetching[u] = 0
    /\ store' = [store EXCEPT !.tokens = Nobody, !.flag = FALSE, !.user = Nobody]
    /\ page' = Mounted("login")
    /\ proved' = [u \in User |-> {}]
    /\ listing' = 0
    /\ UNCHANGED <<server, call, fetching, opened>>

Next ==
    \/ CheckSetup \/ TypeName \/ SwitchStage \/ SwapFactor
    \/ SubmitPassword \/ SubmitTotp \/ TapPasskey \/ SubmitAccount \/ OpenLogin
    \/ \E c \in call : \/ AnswerLogin(c) \/ AnswerTotp(c) \/ AnswerPasskey(c)
                       \/ AnswerAccount(c) \/ AnswerEnroll(c) \/ Refuse(c)
    \/ \E u \in User : UserFetched(u) \/ FetchFailed(u)
    \/ Listed \/ ClosePrompt \/ SetUpPasskey \/ LogOut

Spec == Init /\ [][Next]_vars

-----------------------------------------------------------------------------
(* Whenever the store gets the tokens of a user, that user has since the    *)
(* last sign-out proved a passkey, or the password and every second factor  *)
(* the account then asks for is answered by a code; whatever was typed,     *)
(* switched or left pending on the way.                                     *)
Earned(u) ==
    \/ "passkey" \in proved'[u]
    \/ "password" \in proved'[u] /\ ("totp" \in proved'[u] \/ server.factors[u] = {})

EarnedStep == store'.tokens \notin {store.tokens, Nobody} => Earned(store'.tokens)

TokensAreEarned == [][EarnedStep]_vars

(* The shell asks for a passkey at most once in a browser session, although *)
(* a sign-in fetches the user twice and the passkeys are listed each time.  *)
PromptOpensOnce == opened <= 1
=============================================================================
