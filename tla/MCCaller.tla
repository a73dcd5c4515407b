------------------------------- MODULE MCCaller -------------------------------
EXTENDS Caller

CONSTANTS local, a

MCRemotes == {a}

For(kind, n) == [kind |-> kind, name |-> n]

\* Three lines about the registry, in every order; and lines of the other kinds.
RegistryJobs == {For("connect", a), For("setDefault", a), For("call", a), For("call", Default)}

Others == {<<For("write", Default), For("write", Default), For("search", Default)>>,
           <<For("connect", local), For("transfer", a), For("notify", Default)>>,
           <<For("direct", Default), For("search", a), For("list", Default)>>,
           <<For("setDefault", local), For("connect", a), For("list", Default)>>}

MCInputs == [Lines -> RegistryJobs] \cup Others
=============================================================================
