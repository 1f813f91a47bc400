----------------------------- MODULE MCFrontend -----------------------------
(* Instances of Frontend for TLC.  Accounts: one name is registered with   *)
(* two passwords and logs in, and its cookie comes with another's name.    *)
(* Pages: two registered users visit pages, one of each kind.              *)
EXTENDS Frontend, TLC

CONSTANTS a, b, p, q

Form(page, user, password) ==
  [page |-> page, cookie |-> None, user |-> user, password |-> password]

Visit(page, cookie) == [page |-> page, cookie |-> cookie, user |-> None, password |-> None]

MCAccounts ==
  {Form("register", a, p), Form("register", a, q), Form("login", a, p),
   [Form("login", b, q) EXCEPT !.cookie = a]}

\* Another frontend has registered b.
MCAccountsRegistered == (a :> <<>>) @@ (b :> <<p>>)

MCPages ==
  {Form("register", a, p), Form("login", a, p), Form("login", b, p),
   Visit("local", a), Visit("mail", b), Visit("send", a), Visit("logout", b),
   Visit("static", None), Visit("admin", None)}

MCPagesRegistered == (a :> <<p>>) @@ (b :> <<p>>)
=============================================================================
