SPECIFICATION Spec
CONSTANT MaxForms = 3
INVARIANTS StoreInv RamIsReload CredentialsOfOneForm MessagesUnderHwid
